---- MODULE Spec2Model ----
(***************************************************************************)
(* A model of the retrieval, context-assembly and safety-scoring pipeline  *)
(* of the legal question answering backend (backend/retrieval,             *)
(* backend/generation, backend/api/routes.py).                             *)
(*                                                                         *)
(* Conventions of the model                                                *)
(*  - A Python str is a sequence of one-character strings; SECT stands for *)
(*    the section sign U+00A7.  None and the empty string are both the     *)
(*    empty sequence: the code only ever tests such fields for truthiness. *)
(*  - A Python float is a fixed-point integer in thousandths (0.65 is 650, *)
(*    confidence 0.5 is 500).  Products and quotients round down.          *)
(*  - A Chunk / ScoredChunk / ContextSource is a record holding the fields *)
(*    that the modelled code reads.                                        *)
(***************************************************************************)
EXTENDS Integers, Sequences, FiniteSets, TLC

----------------------------------------------------------------------------
(* Strings *)

SECT == "sect"

UPPER == <<"A", "B", "C", "D", "E", "F", "G", "H", "I", "J", "K", "L", "M", "N", "O", "P", "Q", "R", "S", "T", "U", "V", "W", "X", "Y", "Z">>

LOWER == <<"a", "b", "c", "d", "e", "f", "g", "h", "i", "j", "k", "l", "m", "n", "o", "p", "q", "r", "s", "t", "u", "v", "w", "x", "y", "z">>

DIGITS == {"0", "1", "2", "3", "4", "5", "6", "7", "8", "9"}

IsDigit(c) == c \in DIGITS

IsSpace(c) == c \in {" ", "\n", "\t"}

\* one character of str.lower()
LowerChar(c) ==
    IF \E i \in 1..Len(UPPER) : UPPER[i] = c
    THEN LOWER[CHOOSE i \in 1..Len(UPPER) : UPPER[i] = c]
    ELSE c

\* one character of str.upper()
UpperChar(c) ==
    IF \E i \in 1..Len(LOWER) : LOWER[i] = c
    THEN UPPER[CHOOSE i \in 1..Len(LOWER) : LOWER[i] = c]
    ELSE c

\* str.lower()
Lower(s) == [i \in 1..Len(s) |-> LowerChar(s[i])]

\* str.upper()
Upper(s) == [i \in 1..Len(s) |-> UpperChar(s[i])]

\* Python's `sub in s` on strings: sub occurs in s as a contiguous substring
Contains(s, sub) ==
    \E i \in 0..(Len(s) - Len(sub)) : SubSeq(s, i + 1, i + Len(sub)) = sub

\* a Python list slice lst[:k], k >= 0 or negative (counted from the end)
Take(lst, k) ==
    IF k >= 0
    THEN SubSeq(lst, 1, IF k < Len(lst) THEN k ELSE Len(lst))
    ELSE SubSeq(lst, 1, IF Len(lst) + k > 0 THEN Len(lst) + k ELSE 0)

Range(f) == {f[i] : i \in DOMAIN f}

Max(a, b) == IF a >= b THEN a ELSE b

----------------------------------------------------------------------------
(* Regular expressions of Python's re module.  A pattern is a tree of     *)
(* records; Ends(re, s, i) is the list of positions at which a match of   *)
(* re that starts at position i of s can end, in the order in which the   *)
(* backtracking matcher tries them (greedy repetition first, the left     *)
(* alternative first).                                                    *)

Eps == [kind |-> "eps"]
Ch(set) == [kind |-> "ch", chars |-> set]
Cat(a, b) == [kind |-> "cat", a |-> a, b |-> b]
Alt(a, b) == [kind |-> "alt", a |-> a, b |-> b]
Star(a) == [kind |-> "star", a |-> a]
Plus(a) == Cat(a, Star(a))
Opt(a) == Alt(a, Eps)

\* a character class under re.IGNORECASE
ChI(set) == Ch(set \cup {LowerChar(c) : c \in set} \cup {UpperChar(c) : c \in set})

RECURSIVE CatAll(_)
CatAll(res) == IF res = <<>> THEN Eps
               ELSE IF Len(res) = 1 THEN res[1]
               ELSE Cat(res[1], CatAll(Tail(res)))

\* a literal string, matched under re.IGNORECASE
LitI(str) == CatAll([i \in 1..Len(str) |-> ChI({str[i]})])

\* The one element of a singleton set.  Only({e(x) : x \in {v}}) is e(v)
\* with v evaluated once, however often e reads x.
Only(singleton) == CHOOSE x \in singleton : TRUE

RECURSIVE Ends(_, _, _)
RECURSIVE EndsFrom(_, _, _)
\* the ends of re started at each position of the list starts, concatenated
EndsFrom(re, s, starts) ==
    IF starts = <<>> THEN <<>>
    ELSE Ends(re, s, Head(starts)) \o EndsFrom(re, s, Tail(starts))

\* The positions just after the matches of re in s that start at i, in the
\* order in which a backtracking matcher tries them.
Ends(re, s, i) ==
    CASE re.kind = "eps" -> <<i>>
      [] re.kind = "ch" ->
            IF i <= Len(s) /\ s[i] \in re.chars THEN <<i + 1>> ELSE <<>>
      [] re.kind = "cat" ->
            Only({EndsFrom(re.b, s, starts) : starts \in {Ends(re.a, s, i)}})
      [] re.kind = "alt" -> Ends(re.a, s, i) \o Ends(re.b, s, i)
      [] re.kind = "star" ->
            Only({EndsFrom(re, s, SelectSeq(starts, LAMBDA e : e > i)) \o <<i>> :
                     starts \in {Ends(re.a, s, i)}})

\* A pattern with one capturing group that the caller reads: pre (group)
\* post.  MatchAt is the first match at position i as <<group text, end>>,
\* or <<>> when the pattern does not match there.
Pattern(pre, group, post) == [pre |-> pre, group |-> group, post |-> post]

RECURSIVE FirstGroupMatch(_, _, _, _)
FirstGroupMatch(pat, s, g0, gends) ==
    IF gends = <<>> THEN <<>>
    ELSE Only({IF posts # <<>>
               THEN <<SubSeq(s, g0, Head(gends) - 1), Head(posts)>>
               ELSE FirstGroupMatch(pat, s, g0, Tail(gends)) :
                  posts \in {Ends(pat.post, s, Head(gends))}})

RECURSIVE FirstPreMatch(_, _, _)
FirstPreMatch(pat, s, pends) ==
    IF pends = <<>> THEN <<>>
    ELSE Only({IF m # <<>> THEN m ELSE FirstPreMatch(pat, s, Tail(pends)) :
                  m \in {Only({FirstGroupMatch(pat, s, Head(pends), gends) :
                                  gends \in {Ends(pat.group, s, Head(pends))}})}})

MatchAt(pat, s, i) ==
    Only({FirstPreMatch(pat, s, pends) : pends \in {Ends(pat.pre, s, i)}})

\* the leftmost position from i on where the pattern matches, or 0
NextMatch(pat, s, i) ==
    Only({IF hits = {} THEN 0 ELSE CHOOSE j \in hits : \A k \in hits : j <= k :
             hits \in {{j \in i..(Len(s) + 1) : MatchAt(pat, s, j) # <<>>}}})

\* re.findall(pattern, s): the group texts of the non-overlapping matches,
\* scanning from the left
RECURSIVE FindAllFrom(_, _, _)
FindAllFrom(pat, s, i) ==
    Only({IF j = 0 THEN <<>>
          ELSE Only({<<m[1]>> \o FindAllFrom(pat, s, IF m[2] > j THEN m[2] ELSE j + 1) :
                        m \in {MatchAt(pat, s, j)}}) :
             j \in {NextMatch(pat, s, i)}})

FindAll(pat, s) == FindAllFrom(pat, s, 1)

----------------------------------------------------------------------------
(* backend/generation/safety.py *)

LOW_CONFIDENCE == "LOW_CONFIDENCE"
OUTDATED_POSSIBLE == "OUTDATED_POSSIBLE"
JURISDICTION_NOTE == "JURISDICTION_NOTE"
USE_OF_FORCE_CAUTION == "USE_OF_FORCE_CAUTION"
USE_OF_FORCE_INSUFFICIENT == "USE_OF_FORCE_INSUFFICIENT"

USE_OF_FORCE_KEYWORDS == <<
    <<"u", "s", "e", " ", "o", "f", " ", "f", "o", "r", "c", "e">>,
    <<"f", "o", "r", "c", "e">>,
    <<"d", "e", "a", "d", "l", "y", " ", "f", "o", "r", "c", "e">>,
    <<"l", "e", "t", "h", "a", "l", " ", "f", "o", "r", "c", "e">>,
    <<"s", "h", "o", "o", "t", "i", "n", "g">>,
    <<"t", "a", "s", "e", "r">>,
    <<"t", "a", "s", "e", "r">>,
    <<"r", "e", "s", "t", "r", "a", "i", "n", "t">>,
    <<"c", "h", "o", "k", "e", "h", "o", "l", "d">>,
    <<"n", "e", "c", "k", " ", "r", "e", "s", "t", "r", "a", "i", "n", "t">>,
    <<"h", "a", "n", "d", "c", "u", "f", "f">>,
    <<"t", "a", "k", "e", " ", "d", "o", "w", "n">>,
    <<"t", "a", "k", "e", "-", "d", "o", "w", "n">>,
    <<"s", "e", "l", "f", "-", "d", "e", "f", "e", "n", "s", "e">>,
    <<"d", "e", "f", "e", "n", "s", "e">>,
    <<"t", "h", "r", "e", "a", "t">>,
    <<"i", "m", "m", "i", "n", "e", "n", "t", " ", "t", "h", "r", "e", "a", "t">>,
    <<"r", "e", "a", "s", "o", "n", "a", "b", "l", "e", " ", "f", "o", "r", "c", "e">>,
    <<"e", "x", "c", "e", "s", "s", "i", "v", "e", " ", "f", "o", "r", "c", "e">>,
    <<"f", "o", "r", "c", "e", " ", "p", "o", "l", "i", "c", "y">> >>

WI_INDICATORS == <<
    <<"w", "i", "s", "c", "o", "n", "s", "i", "n">>,
    <<"w", "i">>,
    <<"w", "i", "s", ".", " ", "s", "t", "a", "t">>,
    <<"s", "t", "a", "t", "e", " ", "s", "t", "a", "t", "u", "t", "e">> >>

\* detect_use_of_force(query)
DetectUseOfForce(query) ==
    LET query_lower == Lower(query)
    IN  \E k \in 1..Len(USE_OF_FORCE_KEYWORDS) :
            Contains(query_lower, USE_OF_FORCE_KEYWORDS[k])

\* check_source_currency(context_packet): the loop body is `pass`
CheckSourceCurrency(context_packet) == FALSE

\* check_jurisdiction_mismatch(query, context_packet)
CheckJurisdictionMismatch(query, context_packet) ==
    LET query_lower == Lower(query)
        query_mentions_wi ==
            \E k \in 1..Len(WI_INDICATORS) : Contains(query_lower, WI_INDICATORS[k])
    IN  /\ query_mentions_wi
        /\ \E i \in 1..Len(context_packet.sources) :
              /\ context_packet.sources[i].jurisdiction # <<>>
              /\ Upper(context_packet.sources[i].jurisdiction) = <<"U", "S">>


\* the confidence as it is, not clamped
NoClamp(x) == x

\* max(0.0, min(1.0, confidence)), in thousandths
Clamp01(x) == IF x < 0 THEN 0 ELSE IF x > 1000 THEN 1000 ELSE x

\* dict.get(key, default)
Get(dict, key, default) == IF key \in DOMAIN dict THEN dict[key] ELSE default

\* compute_confidence(retrieval_signals, citations, context_packet), in
\* thousandths.  retrieval_signals is the dict built by the caller, with
\* the keys exact_match, top_score, num_sources, score_variance; citations
\* is the list of cited source ids; context_packet is not read by the code.
ComputeConfidence(retrieval_signals, citations, context_packet) ==
    LET top_score == Get(retrieval_signals, "top_score", 0)
        num_sources == Get(retrieval_signals, "num_sources", 0)
        score_variance == Get(retrieval_signals, "score_variance", 1000)
        c0 == 400
        c1 == IF Get(retrieval_signals, "exact_match", FALSE) THEN c0 + 350 ELSE c0
        c2 == IF top_score > 900 THEN c1 + 250
              ELSE IF top_score > 800 THEN c1 + 200
              ELSE IF top_score > 700 THEN c1 + 150
              ELSE IF top_score > 600 THEN c1 + 100
              ELSE IF top_score > 500 THEN c1 + 50
              ELSE IF top_score < 300 THEN c1 - 250
              ELSE IF top_score < 400 THEN c1 - 150
              ELSE c1
        c3 == IF num_sources >= 5 THEN c2 + 150
              ELSE IF num_sources >= 3 THEN c2 + 100
              ELSE IF num_sources >= 2 THEN c2 + 50
              ELSE IF num_sources = 0 THEN 100
              ELSE c2
        c4 == IF Len(citations) >= 3 THEN c3 + 100
              ELSE IF Len(citations) >= 2 THEN c3 + 50
              ELSE IF Len(citations) = 1 THEN c3 + 20
              ELSE c3
        c5 == IF score_variance < 50 THEN c4 + 80
              ELSE IF score_variance < 100 THEN c4 + 50
              ELSE IF score_variance > 500 THEN c4 - 100
              ELSE c4
    IN  Clamp01(c5)

\* a test that counts policies only
HasPolicy(context_packet) ==
    \E i \in 1..Len(context_packet.sources) :
        context_packet.sources[i].doc_type = "policy"

\* the has_policy_or_statute loop of generate_flags; a ContextSource has
\* the attributes statute_number and doc_type, so the hasattr branches are
\* the ones taken
HasPolicyOrStatute(context_packet) ==
    \E i \in 1..Len(context_packet.sources) :
        \/ context_packet.sources[i].statute_number # <<>>
        \/ context_packet.sources[i].doc_type = "policy"

\* generate_flags(query, context_packet, confidence, retrieval_signals):
\* the list of flags, in the order the code appends them
GenerateFlags(query, context_packet, confidence, retrieval_signals) ==
    (IF confidence < 500 THEN <<LOW_CONFIDENCE>> ELSE <<>>)
    \o (IF CheckSourceCurrency(context_packet) THEN <<OUTDATED_POSSIBLE>> ELSE <<>>)
    \o (IF CheckJurisdictionMismatch(query, context_packet)
        THEN <<JURISDICTION_NOTE>> ELSE <<>>)
    \o (IF DetectUseOfForce(query)
        THEN <<USE_OF_FORCE_CAUTION>>
             \o (IF ~HasPolicyOrStatute(context_packet)
                 THEN <<USE_OF_FORCE_INSUFFICIENT>> ELSE <<>>)
        ELSE <<>>)

\* a gate that lets every query through
AlwaysAllow(query, context_packet) == TRUE

\* should_allow_use_of_force_response(query, context_packet)
ShouldAllowUseOfForceResponse(query, context_packet) ==
    IF ~DetectUseOfForce(query)
    THEN TRUE
    ELSE \E i \in 1..Len(context_packet.sources) :
            \/ context_packet.sources[i].statute_number # <<>>
            \/ context_packet.sources[i].doc_type = "policy"

----------------------------------------------------------------------------
(* backend/retrieval/relevance.py *)

\* datetime.now().year
CurrentYear == 2026

DigitVal(c) == CHOOSE n \in 0..9 : <<"0", "1", "2", "3", "4", "5", "6", "7", "8", "9">>[n + 1] = c

RECURSIVE ParseInt(_)
\* int(s) of a string of digits
ParseInt(s) == IF s = <<>> THEN 0
               ELSE 10 * ParseInt(SubSeq(s, 1, Len(s) - 1)) + DigitVal(s[Len(s)])

\* An attribute that a chunk may lack, or hold as a bool or as a string:
\* get_chunk_attr('is_current').  str(x).lower() of it:
NoAttr == [kind |-> "none"]
BoolAttr(b) == [kind |-> "bool", b |-> b]
StrAttr(str) == [kind |-> "str", s |-> str]
AttrTruthy(x) == \/ x.kind = "bool" /\ x.b
                 \/ x.kind = "str" /\ x.s # <<>>
AttrStrLower(x) == IF x.kind = "bool"
                   THEN (IF x.b THEN <<"t", "r", "u", "e">> ELSE <<"f", "a", "l", "s", "e">>)
                   ELSE Lower(x.s)

\* apply_relevance_boosts(chunk, base_score, filters): the adjusted score
\* (the reasons are only logged).  filters is a record whose department is
\* empty when the caller passed no filters or no department.
ApplyRelevanceBoosts(chunk, base_score, filters) ==
    LET s1 == IF chunk.jurisdiction # <<>>
              THEN (IF Upper(chunk.jurisdiction) = <<"W", "I">>
                    THEN base_score + 50 ELSE base_score - 30)
              ELSE base_score
        year == ParseInt(chunk.date)
        s2 == IF AttrTruthy(chunk.is_current)
              THEN (IF AttrStrLower(chunk.is_current) \in
                         {<<"t", "r", "u", "e">>, <<"y", "e", "s">>, <<"1">>}
                    THEN s1 + 30 ELSE s1 - 50)
              ELSE IF /\ chunk.date # <<>>
                      /\ Len(chunk.date) = 4
                      /\ \A i \in 1..Len(chunk.date) : IsDigit(chunk.date[i])
                   THEN (IF year >= CurrentYear - 2 THEN s1 + 20
                         ELSE IF year < CurrentYear - 10 THEN s1 - 30
                         ELSE s1)
                   ELSE s1
        s3 == IF /\ filters.department # <<>>
                 /\ chunk.doc_type = "policy"
                 /\ chunk.department # <<>>
                 /\ Lower(chunk.department) = Lower(filters.department)
              THEN s2 + 50 ELSE s2
    IN  Max(0, s3)

----------------------------------------------------------------------------
(* backend/retrieval/hybrid_search.py *)

\* the two characters U+0E22 U+0E07 that the first statute pattern of
\* hybrid_search.py holds in the place of the section sign
YO_YAK == "U+0E22"
NGO_NGU == "U+0E07"

WS == Ch({" ", "\n", "\t"})
DIGIT == Ch(DIGITS)
ALNUM == Ch(DIGITS \cup Range(UPPER) \cup Range(LOWER))
UPPERCH == Ch(Range(UPPER))
LOWERCH == Ch(Range(LOWER))

\* \d+\.\d+(?:\([0-9a-zA-Z]+\))*
STATUTE_NUMBER_RE ==
    CatAll(<<Plus(DIGIT), Ch({"."}), Plus(DIGIT),
             Star(CatAll(<<Ch({"("}), Plus(ALNUM), Ch({")"})>>))>>)

\* STATUTE_PATTERNS, matched with re.IGNORECASE
STATUTE_PATTERNS == <<
    Pattern(CatAll(<<Ch({YO_YAK}), Ch({NGO_NGU}), Star(WS)>>), STATUTE_NUMBER_RE, Eps),
    Pattern(CatAll(<<Alt(LitI(<<"s", "e", "c", "t", "i", "o", "n">>),
                         CatAll(<<LitI(<<"s", "e", "c">>), Ch({"."})>>)),
                     Plus(WS)>>),
            STATUTE_NUMBER_RE, Eps),
    Pattern(CatAll(<<Alt(CatAll(<<LitI(<<"w", "i", "s">>), Opt(Ch({"."})), Star(WS),
                                  LitI(<<"s", "t", "a", "t">>), Opt(Ch({"."}))>>),
                         CatAll(<<LitI(<<"w", ".", "s", ".", "a">>), Opt(Ch({"."}))>>)),
                     Star(WS)>>),
            STATUTE_NUMBER_RE, Eps) >>

\* [A-Z][a-z]+\s+v\.?\s+[A-Z][a-z]+(?:\s+[A-Z][a-z]+)*
CASE_NAME_RE ==
    CatAll(<<UPPERCH, Plus(LOWERCH), Plus(WS), Ch({"v"}), Opt(Ch({"."})), Plus(WS),
             UPPERCH, Plus(LOWERCH),
             Star(CatAll(<<Plus(WS), UPPERCH, Plus(LOWERCH)>>))>>)

\* CASE_CITATION_PATTERNS, case-sensitive; the caller keeps group 1
CASE_CITATION_PATTERNS == <<
    Pattern(Eps, CASE_NAME_RE, Eps),
    Pattern(Eps, CASE_NAME_RE,
            CatAll(<<Ch({","}), Star(WS), DIGIT, DIGIT, DIGIT, DIGIT>>)) >>

RECURSIVE Dedup(_)
\* list(dict.fromkeys(lst)): duplicates removed, first occurrences kept
Dedup(lst) ==
    IF lst = <<>> THEN <<>>
    ELSE LET init == Dedup(SubSeq(lst, 1, Len(lst) - 1))
             last == lst[Len(lst)]
         IN  IF last \in Range(init) THEN init ELSE Append(init, last)

RECURSIVE FindAllOf(_, _)
\* the matches of each pattern of the list in turn, concatenated
FindAllOf(patterns, s) ==
    IF patterns = <<>> THEN <<>>
    ELSE FindAll(Head(patterns), s) \o FindAllOf(Tail(patterns), s)

\* detect_exact_patterns(query)
DetectExactPatterns(query) ==
    [statute_numbers |-> Dedup(FindAllOf(STATUTE_PATTERNS, query)),
     case_citations |-> Dedup(FindAllOf(CASE_CITATION_PATTERNS, query))]

\* VectorStore.semantic_query, lines 194-219: each raw result of the index
\* (a chunk and its distance) becomes a ScoredChunk with score 1 - distance
SemanticQuery(raw_results) ==
    [i \in 1..Len(raw_results) |->
        [chunk |-> raw_results[i].chunk, score |-> 1000 - raw_results[i].distance]]

\* variant_weight = 1.0 if i == 0 else enhanced_variant_weight (i from 1 here)
VariantWeight(i, enhanced_variant_weight) ==
    IF i = 1 THEN 1000 ELSE enhanced_variant_weight

\* similarity = 1.0 / (1.0 + result.score) * variant_weight
Similarity(score, variant_weight) ==
    (((1000 * 1000) \div (1000 + score)) * variant_weight) \div 1000

RECURSIVE SemanticLoop(_, _, _, _, _)
\* The loop of lines 283-303 from variant i, result j on: acc maps each
\* chunk id seen so far to its chunk and its score (all_semantic_chunks and
\* all_semantic_scores)
SemanticLoop(semantic_by_variant, enhanced_variant_weight, i, j, acc) ==
    IF i > Len(semantic_by_variant) THEN acc
    ELSE IF j > Len(semantic_by_variant[i])
    THEN SemanticLoop(semantic_by_variant, enhanced_variant_weight, i + 1, 1, acc)
    ELSE LET result == semantic_by_variant[i][j]
             chunk_id == result.chunk.chunk_id
             similarity == Similarity(result.score,
                                      VariantWeight(i, enhanced_variant_weight))
             next == IF chunk_id \notin DOMAIN acc
                     THEN acc @@ (chunk_id :> [chunk |-> result.chunk, score |-> similarity])
                     ELSE [acc EXCEPT ![chunk_id].score = Max(@, similarity)]
         IN  SemanticLoop(semantic_by_variant, enhanced_variant_weight, i, j + 1, next)

RECURSIVE Bm25Loop(_, _, _, _, _)
\* The loop of lines 313-328: all_bm25_results, the list that the rest of
\* the function reads.  A chunk is appended with the score of the first
\* variant that returned it; the maximum kept in all_bm25_scores is not
\* read again after the loop.
Bm25Loop(bm25_by_variant, enhanced_variant_weight, i, j, acc) ==
    IF i > Len(bm25_by_variant) THEN acc
    ELSE IF j > Len(bm25_by_variant[i])
    THEN Bm25Loop(bm25_by_variant, enhanced_variant_weight, i + 1, 1, acc)
    ELSE LET result == bm25_by_variant[i][j]
             chunk_id == result.chunk.chunk_id
             normalized_score ==
                 (result.score * VariantWeight(i, enhanced_variant_weight)) \div 1000
             next == IF \A k \in 1..Len(acc) : acc[k].chunk.chunk_id # chunk_id
                     THEN Append(acc, [chunk |-> result.chunk, score |-> normalized_score])
                     ELSE acc
         IN  Bm25Loop(bm25_by_variant, enhanced_variant_weight, i, j + 1, next)

RECURSIVE MaxScore(_, _)
\* max([score for _, score in lst], default=default)
MaxScore(lst, default) ==
    IF lst = <<>> THEN default
    ELSE IF Len(lst) = 1 THEN lst[1].score
    ELSE Max(lst[1].score, MaxScore(Tail(lst), default))

\* bm25_scores, lines 339-343
Bm25Scores(bm25_results) ==
    LET bm25_max_score == MaxScore(bm25_results, 1000)
    IN  [id \in {bm25_results[k].chunk.chunk_id : k \in 1..Len(bm25_results)} |->
            LET k == CHOOSE k \in 1..Len(bm25_results) : bm25_results[k].chunk.chunk_id = id
            IN  IF bm25_max_score > 0
                THEN (bm25_results[k].score * 1000) \div bm25_max_score
                ELSE 0]

\* any(stat_num in chunk.statute_number or chunk.statute_number in stat_num ...)
StatuteMatches(chunk, statute_numbers) ==
    /\ chunk.statute_number # <<>>
    /\ statute_numbers # <<>>
    /\ \E k \in 1..Len(statute_numbers) :
          \/ Contains(chunk.statute_number, statute_numbers[k])
          \/ Contains(statute_numbers[k], chunk.statute_number)

\* any(case_cit.lower() in chunk.case_citation.lower() or ...)
CaseMatches(chunk, case_citations) ==
    /\ chunk.case_citation # <<>>
    /\ case_citations # <<>>
    /\ \E k \in 1..Len(case_citations) :
          \/ Contains(Lower(chunk.case_citation), Lower(case_citations[k]))
          \/ Contains(Lower(case_citations[k]), Lower(chunk.case_citation))

\* One iteration of the merge loop, lines 351-390: the merged score of a
\* chunk id
MergedScore(chunk_id, semantic, bm25_results, bm25_scores, patterns, semantic_weight, bm25_weight, exact_match_bonus) ==
    LET semantic_score == IF chunk_id \in DOMAIN semantic THEN semantic[chunk_id].score ELSE 0
        bm25_score == IF chunk_id \in DOMAIN bm25_scores THEN bm25_scores[chunk_id] ELSE 0
        combined_score == (semantic_score * semantic_weight) \div 1000
                          + (bm25_score * bm25_weight) \div 1000
        chunk == IF chunk_id \in DOMAIN semantic
                 THEN semantic[chunk_id].chunk
                 ELSE bm25_results[CHOOSE k \in 1..Len(bm25_results) :
                                      bm25_results[k].chunk.chunk_id = chunk_id].chunk
        b1 == IF StatuteMatches(chunk, patterns.statute_numbers) THEN exact_match_bonus ELSE 0
        b2 == IF CaseMatches(chunk, patterns.case_citations) THEN exact_match_bonus ELSE 0
    IN  [chunk |-> chunk, score |-> combined_score + b1 + b2]

\* The iteration order of the Python set all_chunk_ids.  The ids are str,
\* whose hashes depend on the hash seed of the interpreter process:
\* set_order lists every chunk id in the order this process iterates them.
SetIteration(ids, set_order) == SelectSeq(set_order, LAMBDA id : id \in ids)

\* the merged list as it is, not sorted
KeepMergeOrder(results) == results

RECURSIVE InsertDesc(_, _)
\* x placed in the descending list after every element that is not smaller
InsertDesc(sorted, x) ==
    IF sorted = <<>> THEN <<x>>
    ELSE IF Head(sorted).score >= x.score
         THEN <<Head(sorted)>> \o InsertDesc(Tail(sorted), x)
         ELSE <<x>> \o sorted

RECURSIVE SortByScoreDesc(_)
\* lst.sort(key=lambda x: x.score, reverse=True): a stable sort, elements
\* of equal score keep their order
SortByScoreDesc(lst) ==
    IF lst = <<>> THEN <<>>
    ELSE InsertDesc(SortByScoreDesc(SubSeq(lst, 1, Len(lst) - 1)), lst[Len(lst)])

\* hybrid_search(query, filters, top_k, semantic_weight, bm25_weight,
\* exact_match_bonus, ..., enhanced_variant_weight).  semantic_by_variant
\* and bm25_by_variant are what the vector store and the keyword index
\* return for each query variant (the original query first), set_order the
\* iteration order of string sets in this process.
HybridSearch(query, filters, top_k, semantic_weight, bm25_weight, exact_match_bonus, enhanced_variant_weight, semantic_by_variant, bm25_by_variant, set_order) ==
    LET patterns == DetectExactPatterns(query)
        semantic == SemanticLoop(semantic_by_variant, enhanced_variant_weight, 1, 1, <<>>)
        bm25_results == Bm25Loop(bm25_by_variant, enhanced_variant_weight, 1, 1, <<>>)
        bm25_scores == Bm25Scores(bm25_results)
        all_chunk_ids == SetIteration(DOMAIN semantic \cup DOMAIN bm25_scores, set_order)
        merged == [k \in 1..Len(all_chunk_ids) |->
                      MergedScore(all_chunk_ids[k], semantic, bm25_results, bm25_scores,
                                  patterns, semantic_weight, bm25_weight, exact_match_bonus)]
        final_results == [k \in 1..Len(merged) |->
                             [chunk |-> merged[k].chunk,
                              score |-> ApplyRelevanceBoosts(merged[k].chunk,
                                                             merged[k].score, filters)]]
    IN  Take(SortByScoreDesc(final_results), top_k)

----------------------------------------------------------------------------
(* backend/retrieval/crossref.py *)

SECTION_WS == Cat(Ch({SECT}), Star(WS))

\* the phrase, then \s+, the section sign and \s*
CrossrefPhrase(phrase) == CatAll(<<LitI(phrase), Plus(WS), SECTION_WS>>)

\* CROSSREF_PATTERNS, matched with re.IGNORECASE
CROSSREF_PATTERNS == <<
    Pattern(CrossrefPhrase(<<"s", "e", "e", " ", "a", "l", "s", "o">>), STATUTE_NUMBER_RE, Eps),
    Pattern(CrossrefPhrase(<<"s", "e", "e">>), STATUTE_NUMBER_RE, Eps),
    Pattern(CrossrefPhrase(<<"r", "e", "f", "e", "r", " ", "t", "o">>), STATUTE_NUMBER_RE, Eps),
    Pattern(CrossrefPhrase(<<"u", "n", "d", "e", "r">>), STATUTE_NUMBER_RE, Eps),
    Pattern(CrossrefPhrase(<<"p", "u", "r", "s", "u", "a", "n", "t", " ", "t", "o">>), STATUTE_NUMBER_RE, Eps),
    Pattern(SECTION_WS, STATUTE_NUMBER_RE,
            CatAll(<<Plus(WS), Alt(LitI(<<"a", "n", "d">>), Ch({","})), Plus(WS),
                     Ch({SECT})>>)) >>

STATUTE_REF_PATTERN == Pattern(SECTION_WS, STATUTE_NUMBER_RE, Eps)

\* the characters of statute numbers in code point order
CODE_POINT_ORDER ==
    <<"(", ")", ".", "0", "1", "2", "3", "4", "5", "6", "7", "8", "9">> \o UPPER \o LOWER

Ord(c) == CHOOSE i \in 1..Len(CODE_POINT_ORDER) : CODE_POINT_ORDER[i] = c

RECURSIVE StrLess(_, _)
\* a < b on Python strings
StrLess(a, b) ==
    IF b = <<>> THEN FALSE
    ELSE IF a = <<>> THEN TRUE
    ELSE IF a[1] # b[1] THEN Ord(a[1]) < Ord(b[1])
    ELSE StrLess(Tail(a), Tail(b))

RECURSIVE SortedStrings(_)
\* sorted(list(set_of_strings))
SortedStrings(set) ==
    IF set = {} THEN <<>>
    ELSE LET least == CHOOSE x \in set : \A y \in set \ {x} : StrLess(x, y)
         IN  <<least>> \o SortedStrings(set \ {least})

\* detect_crossrefs(chunk)
DetectCrossrefs(chunk) ==
    LET explicit == Range(FindAllOf(CROSSREF_PATTERNS, chunk.text))
        all_statute_matches == FindAll(STATUTE_REF_PATTERN, chunk.text)
        bare == {all_statute_matches[k] : k \in
                    {k \in 1..Len(all_statute_matches) :
                        ~(/\ chunk.statute_number # <<>>
                          /\ Contains(chunk.statute_number, all_statute_matches[k]))}}
    IN  SortedStrings(explicit \cup bare)

\* The vector store as the resolver sees it: vs.chunks is the collection in
\* the order of get_all_chunks, vs.nearest the ids in the order of their
\* distance from the query text, vs.raises whether the query raises.
\* resolve_crossref(statute_number, vector_store, exclude_chunk_ids): a list
\* holding the chunk, or the empty list for None.
ResolveCrossref(statute_number, vs, exclude_chunk_ids) ==
    IF vs.raises THEN <<>>
    ELSE
    LET ChunkOf(id) == vs.chunks[CHOOSE k \in 1..Len(vs.chunks) : vs.chunks[k].chunk_id = id]
        results == SelectSeq(vs.nearest,
                             LAMBDA id : ChunkOf(id).statute_number = statute_number)
        all_chunks == vs.chunks
        open == SelectSeq(all_chunks, LAMBDA c : c.chunk_id \notin exclude_chunk_ids)
        exact == SelectSeq(open, LAMBDA c : /\ c.statute_number # <<>>
                                            /\ \/ Contains(c.statute_number, statute_number)
                                               \/ Contains(statute_number, c.statute_number)
                                            /\ c.statute_number = statute_number)
        partial == SelectSeq(open, LAMBDA c : /\ c.statute_number # <<>>
                                              /\ Contains(c.statute_number, statute_number))
    IN  IF results # <<>> /\ results[1] \notin exclude_chunk_ids
        THEN <<ChunkOf(results[1])>>
        ELSE IF exact # <<>> THEN <<exact[1]>>
        ELSE IF partial # <<>> THEN <<partial[1]>>
        ELSE <<>>

RECURSIVE ResolveLoopUnbounded(_, _, _, _, _)
\* the loop without the test of resolved_count against max_refs
ResolveLoopUnbounded(refs, max_refs, vs, seen_chunk_ids, resolved_chunks) ==
    IF refs = <<>> THEN resolved_chunks
    ELSE LET resolved_chunk == ResolveCrossref(Head(refs), vs, seen_chunk_ids)
         IN  IF resolved_chunk # <<>> /\ resolved_chunk[1].chunk_id \notin seen_chunk_ids
             THEN ResolveLoopUnbounded(Tail(refs), max_refs, vs,
                                       seen_chunk_ids \cup {resolved_chunk[1].chunk_id},
                                       Append(resolved_chunks, resolved_chunk[1]))
             ELSE ResolveLoopUnbounded(Tail(refs), max_refs, vs, seen_chunk_ids,
                                       resolved_chunks)

RECURSIVE ResolveLoop(_, _, _, _, _)
\* the loop of expand_crossrefs, lines 161-174: resolved_chunks
ResolveLoop(refs, max_refs, vs, seen_chunk_ids, resolved_chunks) ==
    IF refs = <<>> \/ Len(resolved_chunks) >= max_refs THEN resolved_chunks
    ELSE LET resolved_chunk == ResolveCrossref(Head(refs), vs, seen_chunk_ids)
         IN  IF resolved_chunk # <<>> /\ resolved_chunk[1].chunk_id \notin seen_chunk_ids
             THEN ResolveLoop(Tail(refs), max_refs, vs,
                              seen_chunk_ids \cup {resolved_chunk[1].chunk_id},
                              Append(resolved_chunks, resolved_chunk[1]))
             ELSE ResolveLoop(Tail(refs), max_refs, vs, seen_chunk_ids, resolved_chunks)

\* expand_crossrefs(chunks, max_refs, max_depth=1, vector_store)
ExpandCrossrefs(chunks, max_refs, vs) ==
    LET seen_chunk_ids == {chunks[k].chunk_id : k \in 1..Len(chunks)}
        all_refs == UNION {Range(DetectCrossrefs(chunks[k])) : k \in 1..Len(chunks)}
    IN  chunks \o ResolveLoop(SortedStrings(all_refs), max_refs, vs, seen_chunk_ids, <<>>)

----------------------------------------------------------------------------
(* backend/retrieval/context.py *)

CHARS_PER_TOKEN_ESTIMATE == 4

\* estimate_tokens(text)
EstimateTokens(text) == Len(text) \div CHARS_PER_TOKEN_ESTIMATE

\* ContextPacket()
EmptyPacket == [sources |-> <<>>, total_tokens |-> 0, source_counter |-> 0]

DECIMALS == <<"0", "1", "2", "3", "4", "5", "6", "7", "8", "9">>

RECURSIVE DecimalDigits(_)
\* str(n) for n >= 0
DecimalDigits(n) ==
    IF n < 10 THEN <<DECIMALS[n + 1]>>
    ELSE Append(DecimalDigits(n \div 10), DECIMALS[(n % 10) + 1])

\* f"{n:03d}" for n >= 0: padded with zeros to three digits, longer if the
\* number has more
ZeroPad3(n) ==
    LET d == DecimalDigits(n)
    IN  IF Len(d) >= 3 THEN d ELSE [k \in 1..(3 - Len(d)) |-> "0"] \o d

\* f"src_{counter:03d}_{chunk_id[:20]}"
SourceId(counter, chunk_id) ==
    <<"s", "r", "c", "_">> \o ZeroPad3(counter) \o <<"_">> \o Take(chunk_id, 20)

\* ContextPacket.add_chunk(chunk, score, source_type)
AddChunk(packet, chunk, score, source_type) ==
    LET source_id == SourceId(packet.source_counter, chunk.chunk_id)
        chunk_tokens == EstimateTokens(chunk.text)
        source == [source_id |-> source_id,
                   chunk_id |-> chunk.chunk_id,
                   text |-> chunk.text,
                   statute_number |-> chunk.statute_number,
                   case_citation |-> chunk.case_citation,
                   doc_type |-> chunk.doc_type,
                   jurisdiction |-> chunk.jurisdiction,
                   score |-> score,
                   source_type |-> source_type,
                   tokens |-> chunk_tokens]
    IN  [sources |-> Append(packet.sources, source),
         total_tokens |-> packet.total_tokens + chunk_tokens,
         source_counter |-> packet.source_counter + 1]

DIVERSITY_TYPES == <<"statute", "case_law", "policy", "training">>

RECURSIVE AppendUnseen(_, _, _)
\* the loop of _ensure_diversity, lines 237-241
AppendUnseen(chunks_with_scores, diverse_chunks, seen_chunk_ids) ==
    IF chunks_with_scores = <<>> THEN diverse_chunks
    ELSE LET cs == Head(chunks_with_scores)
         IN  IF cs.chunk.chunk_id \notin seen_chunk_ids
             THEN AppendUnseen(Tail(chunks_with_scores), Append(diverse_chunks, cs),
                               seen_chunk_ids \cup {cs.chunk.chunk_id})
             ELSE AppendUnseen(Tail(chunks_with_scores), diverse_chunks, seen_chunk_ids)

\* the list as it is, not reordered
NoReorder(chunks_with_scores) == chunks_with_scores

\* _ensure_diversity(chunks_with_scores)
EnsureDiversity(chunks_with_scores) ==
    LET max_per_type == 2
        ByType(doc_type) == SelectSeq(chunks_with_scores, LAMBDA cs : cs.chunk.doc_type = doc_type)
        leading == Take(ByType(DIVERSITY_TYPES[1]), max_per_type)
                   \o Take(ByType(DIVERSITY_TYPES[2]), max_per_type)
                   \o Take(ByType(DIVERSITY_TYPES[3]), max_per_type)
                   \o Take(ByType(DIVERSITY_TYPES[4]), max_per_type)
    IN  IF chunks_with_scores = <<>> THEN chunks_with_scores
        ELSE AppendUnseen(chunks_with_scores, leading,
                          {leading[k].chunk.chunk_id : k \in 1..Len(leading)})

\* An Optional[int] argument is the empty list for None, or a list holding
\* the number.
NoLimit == <<>>
Limit(n) == <<n>>

RECURSIVE BudgetLoopStrict(_, _, _, _, _)
\* a budget loop that admits no chunk over the token budget, the first
\* one included
BudgetLoopStrict(chunks_with_scores, max_chunks, max_tokens, selected_chunks, token_count) ==
    IF chunks_with_scores = <<>> THEN selected_chunks
    ELSE LET cs == Head(chunks_with_scores)
             chunk_tokens == EstimateTokens(cs.chunk.text)
         IN  IF max_chunks # NoLimit /\ Len(selected_chunks) >= max_chunks[1]
             THEN selected_chunks
             ELSE IF max_tokens # NoLimit /\ (token_count + chunk_tokens) > max_tokens[1]
             THEN selected_chunks
             ELSE BudgetLoopStrict(Tail(chunks_with_scores), max_chunks, max_tokens,
                                   Append(selected_chunks, cs), token_count + chunk_tokens)

RECURSIVE BudgetLoopSkipping(_, _, _, _, _)
\* a budget loop that passes over a chunk that does not fit and goes on
\* with the next one
BudgetLoopSkipping(chunks_with_scores, max_chunks, max_tokens, selected_chunks, token_count) ==
    IF chunks_with_scores = <<>> THEN selected_chunks
    ELSE LET cs == Head(chunks_with_scores)
             chunk_tokens == EstimateTokens(cs.chunk.text)
         IN  IF max_chunks # NoLimit /\ Len(selected_chunks) >= max_chunks[1]
             THEN selected_chunks
             ELSE IF max_tokens # NoLimit /\ (token_count + chunk_tokens) > max_tokens[1]
             THEN (IF Len(selected_chunks) = 0
                   THEN BudgetLoopSkipping(Tail(chunks_with_scores), max_chunks, max_tokens,
                                           Append(selected_chunks, cs),
                                           token_count + chunk_tokens)
                   ELSE BudgetLoopSkipping(Tail(chunks_with_scores), max_chunks, max_tokens,
                                           selected_chunks, token_count))
             ELSE BudgetLoopSkipping(Tail(chunks_with_scores), max_chunks, max_tokens,
                                     Append(selected_chunks, cs), token_count + chunk_tokens)

RECURSIVE BudgetLoop(_, _, _, _, _)
\* the loop of build_context, lines 160-176: selected_chunks
BudgetLoop(chunks_with_scores, max_chunks, max_tokens, selected_chunks, token_count) ==
    IF chunks_with_scores = <<>> THEN selected_chunks
    ELSE LET cs == Head(chunks_with_scores)
             chunk_tokens == EstimateTokens(cs.chunk.text)
         IN  IF max_chunks # NoLimit /\ Len(selected_chunks) >= max_chunks[1]
             THEN selected_chunks
             ELSE IF max_tokens # NoLimit /\ (token_count + chunk_tokens) > max_tokens[1]
             THEN (IF Len(selected_chunks) = 0 THEN Append(selected_chunks, cs)
                   ELSE selected_chunks)
             ELSE BudgetLoop(Tail(chunks_with_scores), max_chunks, max_tokens,
                             Append(selected_chunks, cs), token_count + chunk_tokens)

RECURSIVE AddChunks(_, _, _, _)
\* the loop of build_context, lines 179-185
AddChunks(packet, selected_chunks, expand_crossrefs_flag, primary_chunk_ids) ==
    IF selected_chunks = <<>> THEN packet
    ELSE LET cs == Head(selected_chunks)
             source_type == IF expand_crossrefs_flag /\ cs.chunk.chunk_id \notin primary_chunk_ids
                            THEN "crossref" ELSE "primary"
         IN  Only({AddChunks(next, Tail(selected_chunks), expand_crossrefs_flag,
                             primary_chunk_ids) :
                      next \in {AddChunk(packet, cs.chunk, cs.score, source_type)}})

\* The list that the budget loop of build_context walks: chunks_with_scores
\* after the diversity reordering and the cross-reference expansion,
\* lines 129-154
Candidates(ranked_chunks, expand_crossrefs_flag, max_crossrefs, enforce_diversity, vs) ==
    LET diverse == IF enforce_diversity THEN EnsureDiversity(ranked_chunks) ELSE ranked_chunks
        primary_chunks == [k \in 1..Len(diverse) |-> diverse[k].chunk]
        primary_chunk_ids == {primary_chunks[k].chunk_id : k \in 1..Len(primary_chunks)}
        expanded_chunks == ExpandCrossrefs(primary_chunks, max_crossrefs, vs)
        ScoreOf(chunk) ==
            IF chunk.chunk_id \in primary_chunk_ids
            THEN diverse[CHOOSE k \in 1..Len(diverse) :
                            /\ diverse[k].chunk.chunk_id = chunk.chunk_id
                            /\ \A j \in 1..(k - 1) : diverse[j].chunk.chunk_id # chunk.chunk_id].score
            ELSE 500
    IN  IF expand_crossrefs_flag
        THEN [k \in 1..Len(expanded_chunks) |->
                 [chunk |-> expanded_chunks[k], score |-> ScoreOf(expanded_chunks[k])]]
        ELSE diverse

\* build_context(ranked_chunks, max_chunks, max_tokens, expand_crossrefs_flag,
\* max_crossrefs, enforce_diversity), with the vector store that
\* expand_crossrefs reads
BuildContext(ranked_chunks, max_chunks, max_tokens, expand_crossrefs_flag, max_crossrefs, enforce_diversity, vs) ==
    IF ranked_chunks = <<>> THEN EmptyPacket
    ELSE
    LET diverse == IF enforce_diversity THEN EnsureDiversity(ranked_chunks) ELSE ranked_chunks
        primary_chunk_ids == {diverse[k].chunk.chunk_id : k \in 1..Len(diverse)}
    IN  Only({AddChunks(EmptyPacket, selected_chunks, expand_crossrefs_flag,
                        primary_chunk_ids) :
                 selected_chunks \in
                     {BudgetLoop(chunks_with_scores, max_chunks, max_tokens, <<>>, 0) :
                         chunks_with_scores \in
                             {Candidates(ranked_chunks, expand_crossrefs_flag,
                                         max_crossrefs, enforce_diversity, vs)}}})

\* the separator-joined concatenation of the parts
RECURSIVE Join(_, _)
Join(parts, separator) ==
    IF parts = <<>> THEN <<>>
    ELSE IF Len(parts) = 1 THEN parts[1]
    ELSE parts[1] \o separator \o Join(Tail(parts), separator)

\* ContextPacket.get_context_text: "[Source {source_id}]\n{text}" for each
\* source, joined by "\n\n"
GetContextText(packet) ==
    Join([k \in 1..Len(packet.sources) |->
             <<"[", "S", "o", "u", "r", "c", "e", " ">> \o packet.sources[k].source_id
                \o <<"]", "\n">> \o packet.sources[k].text],
         <<"\n", "\n">>)

----------------------------------------------------------------------------
(* backend/generation/formatter.py *)

\* \w
WORDCH == Ch(DIGITS \cup Range(UPPER) \cup Range(LOWER) \cup {"_"})

\* src_\d+_\w+ under re.IGNORECASE
SOURCE_ID_RE ==
    CatAll(<<LitI(<<"s", "r", "c", "_">>), Plus(DIGIT), Ch({"_"}), Plus(WORDCH)>>)

\* \[Source\s+(src_\d+_\w+)\] and Source\s+(src_\d+_\w+), both under
\* re.IGNORECASE
CITATION_PATTERN ==
    Pattern(CatAll(<<Ch({"["}), LitI(<<"S", "o", "u", "r", "c", "e">>), Plus(WS)>>),
            SOURCE_ID_RE, Ch({"]"}))
CITATION_PATTERN2 ==
    Pattern(Cat(LitI(<<"S", "o", "u", "r", "c", "e">>), Plus(WS)), SOURCE_ID_RE, Eps)

\* the elements of set(matches + matches2) in extract_citations_from_text
CitedIds(text) ==
    Range(FindAll(CITATION_PATTERN, text) \o FindAll(CITATION_PATTERN2, text))

\* the lists that list(a_set) can be: the elements of the set, each once,
\* in the order in which the process iterates the set
Orderings(set) ==
    {o \in [1..Cardinality(set) -> set] : Range(o) = set}

\* extract_citations_from_text(text): every list that the call can return
ExtractCitationsFromText(text) == Orderings(CitedIds(text))

RECURSIVE LStrip(_)
LStrip(s) == IF s # <<>> /\ IsSpace(s[1]) THEN LStrip(Tail(s)) ELSE s

RECURSIVE RStrip(_)
RStrip(s) == IF s # <<>> /\ IsSpace(s[Len(s)]) THEN RStrip(SubSeq(s, 1, Len(s) - 1)) ELSE s

\* str.strip()
Strip(s) == LStrip(RStrip(s))

\* parse_llm_json_response(llm_text)["answer"] for a text that holds no
\* brace and no double quote: no JSON object is found, no "answer" field is
\* found and the substitutions of lines 103-106 match nothing, which leaves
\* llm_text.strip().strip('"').strip()
ParsedAnswer(llm_text) == Strip(llm_text)

\* SourceDocument of a ContextSource: text cut to 500 characters
SourceDocument(source) ==
    [text |-> IF Len(source.text) > 500
              THEN Take(source.text, 500) \o <<".", ".", ".">> ELSE source.text,
     source_id |-> source.source_id,
     chunk_id |-> source.chunk_id,
     score |-> source.score]

RECURSIVE CitedSources(_, _, _)
\* the loop of format_chat_response over cited_source_ids, lines 181-200:
\* the list sources.  source_map maps a source_id to the last source of the
\* packet that has it.
CitedSources(cited_source_ids, packet_sources, sources) ==
    IF cited_source_ids = <<>> THEN sources
    ELSE LET source_id == Head(cited_source_ids)
             holders == {k \in 1..Len(packet_sources) :
                            packet_sources[k].source_id = source_id}
             last == CHOOSE k \in holders : \A j \in holders : j <= k
             used == {sources[k].source_id : k \in 1..Len(sources)}
         IN  IF holders # {} /\ source_id \notin used
             THEN CitedSources(Tail(cited_source_ids), packet_sources,
                               Append(sources,
                                      SourceDocument(packet_sources[last])))
             ELSE CitedSources(Tail(cited_source_ids), packet_sources, sources)

RECURSIVE TopUp(_, _)
\* the loop of format_chat_response over sorted_sources, lines 206-226
TopUp(sorted_sources, sources) ==
    IF sorted_sources = <<>> \/ Len(sources) >= 3 THEN sources
    ELSE LET source == Head(sorted_sources)
             used == {sources[k].source_id : k \in 1..Len(sources)}
         IN  IF source.source_id \notin used
             THEN TopUp(Tail(sorted_sources), Append(sources, SourceDocument(source)))
             ELSE TopUp(Tail(sorted_sources), sources)

\* format_chat_response(llm_response, context_packet, query, confidence,
\* flags), where cited_source_ids is the list that
\* extract_citations_from_text returned for the parsed answer.  The answer
\* text is kept as its parts: the cleaned answer, the disclaimer, and the
\* use-of-force caution that is appended when the flag is set.
FormatChatResponse(llm_response, context_packet, query, confidence, flag_list, cited_source_ids) ==
    LET sorted_sources == SortByScoreDesc(context_packet.sources)
        cited == CitedSources(cited_source_ids, context_packet.sources, <<>>)
        sources == SortByScoreDesc(TopUp(sorted_sources, cited))
    IN  [status |-> 200,
         response |-> [answer |-> ParsedAnswer(llm_response),
                       disclaimer |-> TRUE,
                       use_of_force_caution |-> USE_OF_FORCE_CAUTION \in Range(flag_list)],
         sources |-> sources,
         confidence |-> confidence,
         flags |-> flag_list]

----------------------------------------------------------------------------
(* The environment: the chunks of the collection, the queries, and what   *)
(* the vector index and the keyword index answer.                         *)

\* statute 940.01, text "see [section sign] 940.02"
K1 == [chunk_id |-> <<"a", "_", "c", "h", "u", "n", "k", "_", "0">>,
       doc_type |-> "statute",
       text |-> <<"s", "e", "e", " ", SECT, " ", "9", "4", "0", ".", "0", "2">>,
       statute_number |-> <<"9", "4", "0", ".", "0", "1">>,
       case_citation |-> <<>>,
       jurisdiction |-> <<"W", "I">>,
       date |-> <<"2", "0", "2", "5">>,
       is_current |-> NoAttr,
       department |-> <<>>]

\* case law, State v. Smith
K2 == [chunk_id |-> <<"b", "_", "c", "h", "u", "n", "k", "_", "0">>,
       doc_type |-> "case_law",
       text |-> <<"S", "t", "a", "t", "e", " ", "v", ".", " ", "S", "m", "i", "t", "h", " ", "h", "e", "l", "d">>,
       statute_number |-> <<>>,
       case_citation |-> <<"S", "t", "a", "t", "e", " ", "v", ".", " ", "S", "m", "i", "t", "h">>,
       jurisdiction |-> <<"W", "I">>,
       date |-> <<"2", "0", "2", "5">>,
       is_current |-> NoAttr,
       department |-> <<>>]

\* a federal policy document
K3 == [chunk_id |-> <<"c", "_", "c", "h", "u", "n", "k", "_", "0">>,
       doc_type |-> "policy",
       text |-> <<"t", "a", "s", "e", "r", " ", "p", "o", "l", "i", "c", "y">>,
       statute_number |-> <<>>,
       case_citation |-> <<>>,
       jurisdiction |-> <<"U", "S">>,
       date |-> <<"2", "0", "1", "0">>,
       is_current |-> NoAttr,
       department |-> <<>>]

\* statute 940.02, the target of the reference in K1
K4 == [chunk_id |-> <<"a", "_", "c", "h", "u", "n", "k", "_", "1">>,
       doc_type |-> "statute",
       text |-> <<SECT, " ", "9", "4", "0", ".", "0", "2", " ", "h", "o", "m", "i", "c", "i", "d", "e">>,
       statute_number |-> <<"9", "4", "0", ".", "0", "2">>,
       case_citation |-> <<>>,
       jurisdiction |-> <<"W", "I">>,
       date |-> <<"2", "0", "2", "5">>,
       is_current |-> NoAttr,
       department |-> <<>>]

\* statute 940.03
K5 == [chunk_id |-> <<"a", "_", "c", "h", "u", "n", "k", "_", "2">>,
       doc_type |-> "statute",
       text |-> <<"9", "4", "0", ".", "0", "3", " ", "f", "e", "l", "o", "n", "y", " ", "m", "u", "r", "d", "e", "r">>,
       statute_number |-> <<"9", "4", "0", ".", "0", "3">>,
       case_citation |-> <<>>,
       jurisdiction |-> <<"W", "I">>,
       date |-> <<"2", "0", "2", "5">>,
       is_current |-> NoAttr,
       department |-> <<>>]

\* a training bulletin
K6 == [chunk_id |-> <<"d", "_", "c", "h", "u", "n", "k", "_", "0">>,
       doc_type |-> "training",
       text |-> <<"t", "r", "a", "i", "n", "i", "n", "g", " ", "b", "u", "l", "l", "e", "t", "i", "n", " ", "o", "n", " ", "r", "e", "p", "o", "r", "t", "s">>,
       statute_number |-> <<>>,
       case_citation |-> <<>>,
       jurisdiction |-> <<"W", "I">>,
       date |-> <<"2", "0", "2", "0">>,
       is_current |-> NoAttr,
       department |-> <<>>]

\* a document of a type that the diversity order does not know
K7 == [chunk_id |-> <<"e", "_", "c", "h", "u", "n", "k", "_", "0">>,
       doc_type |-> "memo",
       text |-> <<"a", " ", "m", "e", "m", "o">>,
       statute_number |-> <<>>,
       case_citation |-> <<>>,
       jurisdiction |-> <<"W", "I">>,
       date |-> <<"2", "0", "2", "0">>,
       is_current |-> NoAttr,
       department |-> <<>>]

\* a training note that quotes a citation marker of an older answer
K8 == [chunk_id |-> <<"f", "_", "c", "h", "u", "n", "k", "_", "0">>,
       doc_type |-> "training",
       text |-> <<"a", "s", " ", "i", "n", " ", "S", "o", "u", "r", "c", "e", " ", "s", "r", "c", "_", "7", "_", "x">>,
       statute_number |-> <<>>,
       case_citation |-> <<>>,
       jurisdiction |-> <<"W", "I">>,
       date |-> <<"2", "0", "2", "0">>,
       is_current |-> NoAttr,
       department |-> <<>>]

\* "Section 940.01 force"
QStatute == <<"S", "e", "c", "t", "i", "o", "n", " ", "9", "4", "0", ".", "0", "1", " ", "f", "o", "r", "c", "e">>
\* "State v. Smith taser"
QCase == <<"S", "t", "a", "t", "e", " ", "v", ".", " ", "S", "m", "i", "t", "h", " ", "t", "a", "s", "e", "r">>
\* "What is the taser policy?"
QTaser == <<"W", "h", "a", "t", " ", "i", "s", " ", "t", "h", "e", " ", "t", "a", "s", "e", "r", " ", "p", "o", "l", "i", "c", "y", "?">>
\* "Wisconsin burglary law"
QPlain == <<"W", "i", "s", "c", "o", "n", "s", "i", "n", " ", "b", "u", "r", "g", "l", "a", "r", "y", " ", "l", "a", "w">>

NoFilters == [department |-> <<>>]

Hit(chunk, distance) == [chunk |-> chunk, distance |-> distance]
Scored(chunk, score) == [chunk |-> chunk, score |-> score]

\* answers of the two indices to one query variant: from the vector index
\* chunks with their cosine distances, nearest first; from BM25Index.search
\* chunks with positive scores, best first
IndexAnswers == {
    [semantic |-> <<>>, bm25 |-> <<>>],
    [semantic |-> <<Hit(K1, 0), Hit(K2, 0)>>,
     bm25 |-> <<Scored(K1, 2000), Scored(K2, 2000)>>],
    [semantic |-> <<Hit(K2, 500), Hit(K1, 1000)>>,
     bm25 |-> <<Scored(K3, 4000), Scored(K1, 1000)>>],
    [semantic |-> <<Hit(K2, 200)>>, bm25 |-> <<>>] }

\* the vector store that expand_crossrefs reads: the collection, the order
\* in which a query ranks its chunks, and whether the query raises
VectorStores ==
    {[chunks |-> <<K1, K2, K3, K4>>, raises |-> FALSE,
      nearest |-> <<K1.chunk_id, K2.chunk_id, K3.chunk_id, K4.chunk_id>>],
     [chunks |-> <<K1, K2, K3, K4>>, raises |-> FALSE,
      nearest |-> <<K4.chunk_id, K3.chunk_id, K2.chunk_id, K1.chunk_id>>],
     [chunks |-> <<K1, K2, K3, K4>>, raises |-> TRUE, nearest |-> <<>>]}

\* the most query variants (the original included) of a search
MaxVariants == 2
\* the largest top_k of a search
MaxTopK == 2

\* the chunk ids that a search can return
SearchIds == {K1.chunk_id, K2.chunk_id, K3.chunk_id}

\* the orders in which a process can iterate a set of these ids
SetOrders == Orderings(SearchIds)

\* the answers of both indices to the variants of one query
VariantAnswers == UNION {[1..n -> IndexAnswers] : n \in 1..MaxVariants}

----------------------------------------------------------------------------
(* State *)

VARIABLES
    hs,                 \* a search: its arguments, the answers of the indices, its results
    cx,                 \* a context assembly: its arguments and the packet built
    dv,                 \* a diversity reordering: its argument and its result
    cf,                 \* a confidence computation: its arguments and its result
    pk,                 \* the context packets built so far in one process
    ix,                 \* the process-wide index and store handles and the requests that fetch them
    fn,                 \* a call of one function: its arguments and its result
    pc,                 \* the chat handler: the step it is at
    message,            \* the chat handler: message.message
    query,              \* the chat handler: message.message.strip()
    search_results,     \* the chat handler: what hybrid_search returned
    context_packet,     \* the chat handler: what build_context returned
    retrieval_signals,  \* the chat handler: the signals dict
    flags,              \* the chat handler: the flags list
    llm_response,       \* the chat handler: the text the generator returned
    response,           \* the chat handler: what it returned to the caller
    generate_calls,     \* the calls of generate() so far
    build_calls         \* the calls of build_context() so far

vars == <<hs, cx, dv, cf, pk, ix, fn, pc, message, query, search_results, context_packet, retrieval_signals,
          flags, llm_response, response, generate_calls, build_calls>>

Off == [pc |-> "off"]

\* nothing returned to the caller yet
NoResponse == [status |-> 0]

ChatOff ==
    /\ pc = "off"
    /\ message = <<>>
    /\ query = <<>>
    /\ search_results = <<>>
    /\ context_packet = EmptyPacket
    /\ retrieval_signals = Off
    /\ flags = <<>>
    /\ llm_response = <<>>
    /\ response = NoResponse
    /\ generate_calls = 0
    /\ build_calls = 0

\* the variables of the other harnesses
aux_vars == <<pk, ix, fn>>

AuxOff ==
    /\ pk = Off
    /\ ix = Off
    /\ fn = Off

chat_vars == <<pc, message, query, search_results, context_packet, retrieval_signals,
               flags, llm_response, response, generate_calls, build_calls>>

----------------------------------------------------------------------------
(* hybrid_search, called twice with the same arguments and the same        *)
(* answers of the indices: in one process, or in a process started anew    *)

\* the defaults of hybrid_search
SEMANTIC_WEIGHT == 650
BM25_WEIGHT == 350
EXACT_MATCH_BONUS == 200
ENHANCED_VARIANT_WEIGHT == 500

\* hybrid_search on the arguments and answers held in h, in a process whose
\* sets iterate in set_order
Search(h, set_order) ==
    HybridSearch(h.query, h.filters, h.top_k, SEMANTIC_WEIGHT, BM25_WEIGHT,
                 EXACT_MATCH_BONUS, ENHANCED_VARIANT_WEIGHT,
                 [v \in DOMAIN h.answers |-> SemanticQuery(h.answers[v].semantic)],
                 [v \in DOMAIN h.answers |-> h.answers[v].bm25], set_order)

InitHS ==
    /\ \E q \in {QStatute, QCase, QTaser}, k \in -1..MaxTopK,
          ans \in VariantAnswers, o \in SetOrders :
          hs = [pc |-> "ready", query |-> q, filters |-> NoFilters, top_k |-> k,
                answers |-> ans, order |-> o, out1 |-> <<>>, out2 |-> <<>>]
    /\ cx = Off
    /\ dv = Off
    /\ cf = Off
    /\ ChatOff
    /\ AuxOff

HSFirst ==
    /\ hs.pc = "ready"
    /\ hs' = [hs EXCEPT !.pc = "called", !.out1 = Search(hs, hs.order)]
    /\ UNCHANGED <<cx, dv, cf, aux_vars, chat_vars>>

\* the same call again in the same process
HSAgain ==
    /\ hs.pc = "called"
    /\ hs' = [hs EXCEPT !.pc = "done", !.out2 = Search(hs, hs.order)]
    /\ UNCHANGED <<cx, dv, cf, aux_vars, chat_vars>>

\* the same call again after the server process was started anew: str
\* hashes are seeded per process
HSAgainRestarted ==
    /\ hs.pc = "called"
    /\ \E o \in SetOrders :
          hs' = [hs EXCEPT !.pc = "done", !.order = o, !.out2 = Search(hs, o)]
    /\ UNCHANGED <<cx, dv, cf, aux_vars, chat_vars>>

NextHS == HSFirst \/ HSAgain \/ HSAgainRestarted

SpecHS == InitHS /\ [][NextHS]_vars

----------------------------------------------------------------------------
(* build_context and _ensure_diversity, called on ranked lists of every    *)
(* kind                                                                    *)

\* the longest ranked list passed to build_context
MaxRanked == 3
\* the largest max_chunks passed
MaxChunks == 3
\* the longest list passed to _ensure_diversity
MaxDiverse == 4

\* max_crossrefs as build_context defaults it
DEFAULT_MAX_CROSSREFS == 5

\* the lists of at most n chunks of the pool, no chunk twice, scored in
\* falling order
RankedLists(pool, n) ==
    UNION {{[k \in 1..m |-> Scored(q[k], 1000 - 100 * k)] :
               q \in {q \in [1..m -> pool] : \A i, j \in 1..m : q[i] = q[j] => i = j}} :
           m \in 0..n}

\* token budgets: none, nothing, one small chunk, two chunks, plenty
TokenBudgets == {NoLimit, Limit(0), Limit(3), Limit(7), Limit(100)}

ChunkBudgets == {NoLimit} \cup {Limit(n) : n \in 0..MaxChunks}

InitCX ==
    /\ \E ranked \in RankedLists({K1, K2, K3, K4}, MaxRanked),
          mc \in ChunkBudgets, mt \in TokenBudgets,
          xref \in BOOLEAN, div \in BOOLEAN, vs \in VectorStores :
          /\ ~xref => vs.raises
          /\ cx = [pc |-> "ready", ranked_chunks |-> ranked, max_chunks |-> mc,
                   max_tokens |-> mt, expand_crossrefs_flag |-> xref,
                   max_crossrefs |-> DEFAULT_MAX_CROSSREFS, enforce_diversity |-> div,
                   vs |-> vs, packet |-> EmptyPacket]
    /\ hs = Off
    /\ dv = Off
    /\ cf = Off
    /\ ChatOff
    /\ AuxOff

CXBuild ==
    /\ cx.pc = "ready"
    /\ cx' = [cx EXCEPT !.pc = "done",
                        !.packet = BuildContext(cx.ranked_chunks, cx.max_chunks,
                                                cx.max_tokens, cx.expand_crossrefs_flag,
                                                cx.max_crossrefs, cx.enforce_diversity,
                                                cx.vs)]
    /\ UNCHANGED <<hs, dv, cf, aux_vars, chat_vars>>

NextCX == CXBuild

SpecCX == InitCX /\ [][NextCX]_vars

InitDV ==
    /\ \E lst \in RankedLists({K1, K2, K3, K4, K5, K6, K7}, MaxDiverse) :
          dv = [pc |-> "ready", chunks_with_scores |-> lst, diverse_chunks |-> <<>>]
    /\ hs = Off
    /\ cx = Off
    /\ cf = Off
    /\ ChatOff
    /\ AuxOff

DVReorder ==
    /\ dv.pc = "ready"
    /\ dv' = [dv EXCEPT !.pc = "done",
                        !.diverse_chunks = EnsureDiversity(dv.chunks_with_scores)]
    /\ UNCHANGED <<hs, cx, cf, aux_vars, chat_vars>>

NextDV == DVReorder

SpecDV == InitDV /\ [][NextDV]_vars

----------------------------------------------------------------------------
(* compute_confidence, called on signals and citations of every kind *)

\* the most sources that the signals report
MaxSources == 5
\* the most citations passed
MaxCitations == 4

\* top scores on both sides of every threshold of compute_confidence
TopScores == {0, 299, 300, 399, 400, 500, 501, 601, 701, 801, 901, 1250}

\* score variances on both sides of every threshold
ScoreVariances == {0, 49, 50, 99, 100, 500, 501}

\* the dicts passed as retrieval_signals: with all four keys, and the
\* empty dict
SignalDicts ==
    [exact_match : BOOLEAN, top_score : TopScores,
     num_sources : 0..MaxSources, score_variance : ScoreVariances]
    \cup {<<>>}

\* a list of n cited source ids
CitationList(n) == [k \in 1..n |-> SourceId(k - 1, <<"x">>)]

InitCF ==
    /\ \E sig \in SignalDicts, n \in 0..MaxCitations :
          cf = [pc |-> "ready", retrieval_signals |-> sig,
                citations |-> CitationList(n), confidence |-> 0]
    /\ hs = Off
    /\ cx = Off
    /\ dv = Off
    /\ ChatOff
    /\ AuxOff

CFCompute ==
    /\ cf.pc = "ready"
    /\ cf' = [cf EXCEPT !.pc = "done",
                        !.confidence = ComputeConfidence(cf.retrieval_signals,
                                                         cf.citations, EmptyPacket)]
    /\ UNCHANGED <<hs, cx, dv, aux_vars, chat_vars>>

NextCF == CFCompute

SpecCF == InitCF /\ [][NextCF]_vars

----------------------------------------------------------------------------
(* backend/api/routes.py: the chat handler *)

CHAT_TOP_K == 10
CHAT_MAX_CHUNKS == 10
CHAT_MAX_TOKENS == 4000
CHAT_MAX_CROSSREFS == 5

\* the text of the apology, line 278
APOLOGY_TEXT ==
  <<
    "I", " ", "a", "p", "o", "l", "o", "g", "i", "z", "e", ",", " ", "b",
    "u", "t", " ", "I", " ", "c", "o", "u", "l", "d", " ", "n", "o", "t",
    " ", "f", "i", "n", "d", " ", "a", "n", "y", " ", "r", "e", "l", "e",
    "v", "a", "n", "t", " ", "s", "o", "u", "r", "c", "e", "s", " ", "i",
    "n", " ", "t", "h", "e", " ", "d", "a", "t", "a", "b", "a", "s", "e",
    " ", "t", "o", " ", "a", "n", "s", "w", "e", "r", " ", "y", "o", "u",
    "r", " ", "q", "u", "e", "s", "t", "i", "o", "n", ".", " ", "P", "l",
    "e", "a", "s", "e", " ", "t", "r", "y", " ", "r", "e", "p", "h", "r",
    "a", "s", "i", "n", "g", " ", "y", "o", "u", "r", " ", "q", "u", "e",
    "r", "y", " ", "o", "r", " ", "e", "n", "s", "u", "r", "e", " ", "r",
    "e", "l", "e", "v", "a", "n", "t", " ", "d", "o", "c", "u", "m", "e",
    "n", "t", "s", " ", "a", "r", "e", " ", "i", "n", "d", "e", "x", "e",
    "d", "."
  >>

\* the text of the refusal before its disclaimer, lines 326-329
REFUSAL_TEXT ==
  <<
    "I", " ", "c", "a", "n", "n", "o", "t", " ", "p", "r", "o", "v", "i",
    "d", "e", " ", "i", "n", "f", "o", "r", "m", "a", "t", "i", "o", "n",
    " ", "a", "b", "o", "u", "t", " ", "u", "s", "e", "-", "o", "f", "-",
    "f", "o", "r", "c", "e", " ", "p", "r", "o", "c", "e", "d", "u", "r",
    "e", "s", " ", "w", "i", "t", "h", "o", "u", "t", " ", "e", "x", "p",
    "l", "i", "c", "i", "t", " ", "s", "u", "p", "p", "o", "r", "t", "i",
    "n", "g", " ", "p", "o", "l", "i", "c", "y", " ", "d", "o", "c", "u",
    "m", "e", "n", "t", "s", " ", "o", "r", " ", "s", "t", "a", "t", "u",
    "t", "e", "s", " ", "i", "n", " ", "t", "h", "e", " ", "a", "v", "a",
    "i", "l", "a", "b", "l", "e", " ", "s", "o", "u", "r", "c", "e", "s",
    ".", " ", "P", "l", "e", "a", "s", "e", " ", "c", "o", "n", "s", "u",
    "l", "t", " ", "y", "o", "u", "r", " ", "d", "e", "p", "a", "r", "t",
    "m", "e", "n", "t", "'", "s", " ", "o", "f", "f", "i", "c", "i", "a",
    "l", " ", "u", "s", "e", "-", "o", "f", "-", "f", "o", "r", "c", "e",
    " ", "p", "o", "l", "i", "c", "y", " ", "a", "n", "d", " ", "l", "e",
    "g", "a", "l", " ", "c", "o", "u", "n", "s", "e", "l", " ", "f", "o",
    "r", " ", "g", "u", "i", "d", "a", "n", "c", "e", " ", "o", "n", " ",
    "t", "h", "e", "s", "e", " ", "m", "a", "t", "t", "e", "r", "s", "."
  >>

\* A response text is its answer, then the disclaimer and the use-of-force
\* caution where the text holds them.
APOLOGY == [answer |-> APOLOGY_TEXT, disclaimer |-> FALSE, use_of_force_caution |-> FALSE]

REFUSAL == [answer |-> REFUSAL_TEXT, disclaimer |-> TRUE, use_of_force_caution |-> TRUE]

RECURSIVE Sum(_)
Sum(numbers) == IF numbers = <<>> THEN 0 ELSE Head(numbers) + Sum(Tail(numbers))

\* sum((s - sum(scores)/len(scores))**2 for s in scores) / len(scores), in
\* thousandths, for scores in thousandths
ScoreVariance(scores) ==
    LET n == Len(scores)
        total == Sum(scores)
    IN  IF n = 0 THEN 1000
        ELSE Sum([k \in 1..n |-> (n * scores[k] - total) * (n * scores[k] - total)])
             \div (n * n * n * 1000)

\* the exact_match signal, lines 302-307
ExactMatch(q, results) ==
    \E k \in 1..Len(Take(results, 3)) :
        /\ results[k].chunk.statute_number # <<>>
        /\ \/ Contains(results[k].chunk.statute_number, q)
           \/ Contains(q, results[k].chunk.statute_number)

\* the apology without its flag
ApologyWithoutFlag ==
    [status |-> 200, response |-> APOLOGY, sources |-> <<>>, confidence |-> 100,
     flags |-> <<>>]

\* the response of lines 275-283
ApologyResponse ==
    [status |-> 200, response |-> APOLOGY, sources |-> <<>>, confidence |-> 100,
     flags |-> <<LOW_CONFIDENCE>>]

\* the response of lines 323-338
RefusalResponse(flag_list) ==
    [status |-> 200, response |-> REFUSAL, sources |-> <<>>, confidence |-> 100,
     flags |-> flag_list]

\* raise HTTPException(status_code=...)
HttpError(status_code) == [status |-> status_code]

\* ids that the generator can cite though no source has them
HALLUCINATED == <<SourceId(900, <<"x">>), SourceId(901, <<"x">>), SourceId(902, <<"x">>),
                  SourceId(903, <<"x">>)>>

RECURSIVE Cite(_, _)
Cite(ids, bracketed) ==
    IF ids = <<>> THEN <<>>
    ELSE (IF bracketed
          THEN <<" ", "[", "S", "o", "u", "r", "c", "e", " ">> \o Head(ids) \o <<"]">>
          ELSE <<" ", "S", "o", "u", "r", "c", "e", " ">> \o Head(ids))
         \o Cite(Tail(ids), bracketed)

\* the texts that generate() can return for a packet: an answer that cites
\* the first n of the ids of the packet followed by ids of no source
LLMOutputs(packet) ==
    LET citable == [k \in 1..Len(packet.sources) |-> packet.sources[k].source_id]
                   \o HALLUCINATED
    IN  {<<"O", "k">> \o Cite(Take(citable, n), bracketed) \o <<".">> :
            n \in 0..MaxCitations, bracketed \in BOOLEAN}

\* "  ", and " Section 940.01 force "
QBlank == <<" ", " ">>
QPadded == <<" ">> \o QStatute \o <<" ">>

ChatMessages == {QTaser, QCase, QPlain, QPadded, QBlank}

InitChat ==
    /\ pc = "start"
    /\ message \in ChatMessages
    /\ query = <<>>
    /\ search_results = <<>>
    /\ context_packet = EmptyPacket
    /\ retrieval_signals = Off
    /\ flags = <<>>
    /\ llm_response = <<>>
    /\ response = NoResponse
    /\ generate_calls = 0
    /\ build_calls = 0
    /\ hs = Off
    /\ cx = Off
    /\ dv = Off
    /\ cf = Off
    /\ AuxOff

\* lines 260-263
ChatStart ==
    /\ pc = "start"
    /\ query' = Strip(message)
    /\ IF Strip(message) = <<>>
       THEN /\ response' = HttpError(400)
            /\ pc' = "raised"
       ELSE /\ pc' = "search"
            /\ UNCHANGED response
    /\ UNCHANGED <<aux_vars, hs, cx, dv, cf, message, search_results, context_packet, retrieval_signals,
                   flags, llm_response, generate_calls, build_calls>>

\* lines 268-283: hybrid_search answers
ChatSearch ==
    /\ pc = "search"
    /\ \E ans \in VariantAnswers, o \in SetOrders :
          search_results' = Search([query |-> query, filters |-> NoFilters,
                                    top_k |-> CHAT_TOP_K, answers |-> ans], o)
    /\ IF search_results' = <<>>
       THEN /\ response' = ApologyResponse
            /\ pc' = "returned"
       ELSE /\ pc' = "build"
            /\ UNCHANGED response
    /\ UNCHANGED <<aux_vars, hs, cx, dv, cf, message, query, context_packet, retrieval_signals,
                   flags, llm_response, generate_calls, build_calls>>

\* lines 268-272 and 382-384: hybrid_search raises what the vector store
\* raised
ChatSearchFails ==
    /\ pc = "search"
    /\ response' = HttpError(500)
    /\ pc' = "raised"
    /\ UNCHANGED <<aux_vars, hs, cx, dv, cf, message, query, search_results, context_packet,
                   retrieval_signals, flags, llm_response, generate_calls, build_calls>>

\* lines 285-338: the packet, the signals, the first confidence, the flags
\* and the use-of-force gate
ChatBuildContext ==
    /\ pc = "build"
    /\ \E vs \in VectorStores :
          context_packet' = BuildContext(search_results, Limit(CHAT_MAX_CHUNKS),
                                         Limit(CHAT_MAX_TOKENS), TRUE, CHAT_MAX_CROSSREFS,
                                         TRUE, vs)
    /\ build_calls' = build_calls + 1
    /\ retrieval_signals' =
          [exact_match |-> ExactMatch(query, search_results),
           top_score |-> search_results[1].score,
           num_sources |-> Len(context_packet'.sources),
           score_variance |-> ScoreVariance([k \in 1..Len(search_results) |->
                                                search_results[k].score])]
    /\ flags' = GenerateFlags(query, context_packet',
                              ComputeConfidence(retrieval_signals', <<>>, context_packet'),
                              retrieval_signals')
    /\ IF /\ USE_OF_FORCE_CAUTION \in Range(flags')
          /\ ~ShouldAllowUseOfForceResponse(query, context_packet')
       THEN /\ response' = RefusalResponse(flags')
            /\ pc' = "returned"
       ELSE /\ pc' = "generate"
            /\ UNCHANGED response
    /\ UNCHANGED <<aux_vars, hs, cx, dv, cf, message, query, search_results, llm_response,
                   generate_calls>>

\* lines 340-353: generate() returns a text
ChatGenerate ==
    /\ pc = "generate"
    /\ llm_response' \in LLMOutputs(context_packet)
    /\ generate_calls' = generate_calls + 1
    /\ pc' = "format"
    /\ UNCHANGED <<aux_vars, hs, cx, dv, cf, message, query, search_results, context_packet,
                   retrieval_signals, flags, response, build_calls>>

\* lines 347-353 and 382-384: generate() raises
ChatGenerateFails ==
    /\ pc = "generate"
    /\ generate_calls' = generate_calls + 1
    /\ response' = HttpError(500)
    /\ pc' = "raised"
    /\ UNCHANGED <<aux_vars, hs, cx, dv, cf, message, query, search_results, context_packet,
                   retrieval_signals, flags, llm_response, build_calls>>

\* lines 355-380.  format_chat_response extracts the citations again, from
\* the parsed answer: that is the same set of ids built in the same way, so
\* the same list.
ChatFormat ==
    /\ pc = "format"
    /\ \E citations \in ExtractCitationsFromText(llm_response) :
       \E final_confidence \in {ComputeConfidence(retrieval_signals, citations,
                                                  context_packet)} :
          /\ flags' = IF final_confidence < 500 /\ LOW_CONFIDENCE \notin Range(flags)
                      THEN Append(flags, LOW_CONFIDENCE) ELSE flags
          /\ response' = FormatChatResponse(llm_response, context_packet, query,
                                            final_confidence, flags', citations)
    /\ pc' = "returned"
    /\ UNCHANGED <<aux_vars, hs, cx, dv, cf, message, query, search_results, context_packet,
                   retrieval_signals, llm_response, generate_calls, build_calls>>

Next ==
    \/ ChatStart
    \/ ChatSearch
    \/ ChatSearchFails
    \/ ChatBuildContext
    \/ ChatGenerate
    \/ ChatGenerateFails
    \/ ChatFormat

Spec == InitChat /\ [][Next]_vars

\* compute_confidence called by itself and by the chat handler
InitConfidence == InitCF \/ InitChat

NextConfidence == NextCF \/ Next

SpecConfidence == InitConfidence /\ [][NextConfidence]_vars

----------------------------------------------------------------------------
(* One process serving queries one after the other: build_context is       *)
(* called for each with the arguments the chat handler passes              *)

\* the most packets built in the process
MaxPackets == 2

\* build_context(ranked_chunks, 10, 4000, True, 5, True) for the results of
\* one more query; the packet is a new ContextPacket()
PKBuild ==
    /\ pk.pc = "serving"
    /\ Len(pk.builds) < MaxPackets
    /\ \E ranked_chunks \in RankedLists({K1, K2, K3, K4}, 2) :
          pk' = [pk EXCEPT !.builds = Append(@,
                    [ranked_chunks |-> ranked_chunks,
                     packet |-> BuildContext(ranked_chunks, Limit(CHAT_MAX_CHUNKS),
                                             Limit(CHAT_MAX_TOKENS), TRUE,
                                             CHAT_MAX_CROSSREFS, TRUE, pk.vs)])]
    /\ UNCHANGED <<hs, cx, dv, cf, ix, fn, chat_vars>>

InitPK ==
    /\ \E vs \in VectorStores : pk = [pc |-> "serving", vs |-> vs, builds |-> <<>>]
    /\ hs = Off
    /\ cx = Off
    /\ dv = Off
    /\ cf = Off
    /\ ix = Off
    /\ fn = Off
    /\ ChatOff

NextPK == PKBuild

SpecPK == InitPK /\ [][NextPK]_vars

----------------------------------------------------------------------------
(* A packet rendered by get_context_text and the rendered text parsed by   *)
(* extract_citations_from_text                                             *)

\* the longest ranked list of a rendered packet
MaxRendered == 3

InitRT ==
    /\ \E ranked_chunks \in RankedLists({K1, K2, K3, K8}, MaxRendered) :
          fn = [pc |-> "built",
                packet |-> BuildContext(ranked_chunks, NoLimit, NoLimit, FALSE,
                                        DEFAULT_MAX_CROSSREFS, FALSE,
                                        CHOOSE vs \in VectorStores : vs.raises),
                text |-> <<>>,
                citations |-> <<>>]
    /\ hs = Off
    /\ cx = Off
    /\ dv = Off
    /\ cf = Off
    /\ pk = Off
    /\ ix = Off
    /\ ChatOff

\* context_text = packet.get_context_text()
RTRender ==
    /\ fn.pc = "built"
    /\ fn' = [fn EXCEPT !.pc = "rendered", !.text = GetContextText(fn.packet)]
    /\ UNCHANGED <<hs, cx, dv, cf, pk, ix, chat_vars>>

\* extract_citations_from_text(context_text)
RTExtract ==
    /\ fn.pc = "rendered"
    /\ \E citations \in ExtractCitationsFromText(fn.text) :
          fn' = [fn EXCEPT !.pc = "parsed", !.citations = citations]
    /\ UNCHANGED <<hs, cx, dv, cf, pk, ix, chat_vars>>

NextRT == RTRender \/ RTExtract

SpecRT == InitRT /\ [][NextRT]_vars

----------------------------------------------------------------------------
(* retrieval/hybrid_search.py and retrieval/vector_store.py: the
   process-wide handles.  Requests are calls of hybrid_search without a
   vector_store and without a bm25_index; neither get_vector_store nor
   get_bm25_index takes a lock, so the steps of the requests interleave.
   Instances are numbered in the order of their construction, 0 is None. *)

MaxRequests == 2

Requests == 1..MaxRequests

\* hybrid_search.py 255-256 and vector_store.py 301-302, 304: the test
\* `_vector_store is None`; an existing handle is returned
GetVectorStore(r) ==
    /\ ix.pc = "serving"
    /\ ix.requests[r].pc = "start"
    /\ ix' = IF ix._vector_store = 0
             THEN [ix EXCEPT !.requests[r].pc = "construct"]
             ELSE [ix EXCEPT !.requests[r].pc = "get_index",
                             !.requests[r].vector_store = ix._vector_store]
    /\ UNCHANGED <<hs, cx, dv, cf, pk, fn, chat_vars>>

\* vector_store.py 303, right-hand side: VectorStore() opens the client and
\* the collection
ConstructVectorStore(r) ==
    /\ ix.pc = "serving"
    /\ ix.requests[r].pc = "construct"
    /\ ix' = [ix EXCEPT !.stores_constructed = @ + 1,
                        !.requests[r].constructed = ix.stores_constructed + 1,
                        !.requests[r].pc = "assign_store"]
    /\ UNCHANGED <<hs, cx, dv, cf, pk, fn, chat_vars>>

\* vector_store.py 303-304: the global is assigned and returned
AssignVectorStore(r) ==
    /\ ix.pc = "serving"
    /\ ix.requests[r].pc = "assign_store"
    /\ ix' = [ix EXCEPT !._vector_store = ix.requests[r].constructed,
                        !.requests[r].vector_store = ix.requests[r].constructed,
                        !.requests[r].pc = "get_index"]
    /\ UNCHANGED <<hs, cx, dv, cf, pk, fn, chat_vars>>

\* hybrid_search.py 258-259 and 182-184, 214: the test
\* `_bm25_index is None or not _bm25_index.is_initialized`; an initialized
\* index is returned
GetBM25Index(r) ==
    /\ ix.pc = "serving"
    /\ ix.requests[r].pc = "get_index"
    /\ ix' = IF ix._bm25_index = 0 \/ ~ix.is_initialized[ix._bm25_index]
             THEN [ix EXCEPT !.requests[r].pc = "load"]
             ELSE [ix EXCEPT !.requests[r].pc = "search",
                             !.requests[r].bm25_index = ix._bm25_index]
    /\ UNCHANGED <<hs, cx, dv, cf, pk, fn, chat_vars>>

\* hybrid_search.py 192-194: get_all_chunks reads the collection; it returns
\* [] for an empty collection and when the read fails
GetAllChunks(r) ==
    /\ ix.pc = "serving"
    /\ ix.requests[r].pc = "load"
    /\ ix' = [ix EXCEPT !.requests[r].all_chunks = ix.stored_chunks,
                        !.requests[r].pc = "assign_index"]
    /\ UNCHANGED <<hs, cx, dv, cf, pk, fn, chat_vars>>

\* hybrid_search.py 196-198 and 201: `_bm25_index = BM25Index()`, a new
\* index that is not initialized; without chunks it is returned at once
AssignBM25Index(r) ==
    /\ ix.pc = "serving"
    /\ ix.requests[r].pc = "assign_index"
    /\ ix' = IF ix.requests[r].all_chunks
             THEN [ix EXCEPT !.is_initialized = Append(@, FALSE),
                             !._bm25_index = Len(ix.is_initialized) + 1,
                             !.requests[r].pc = "index_chunks"]
             ELSE [ix EXCEPT !.is_initialized = Append(@, FALSE),
                             !._bm25_index = Len(ix.is_initialized) + 1,
                             !.requests[r].bm25_index = Len(ix.is_initialized) + 1,
                             !.requests[r].pc = "search"]
    /\ UNCHANGED <<hs, cx, dv, cf, pk, fn, chat_vars>>

\* hybrid_search.py 202 and 99-128: `_bm25_index.index_chunks(all_chunks)`
\* reads the global again and initializes the index it finds there
IndexChunks(r) ==
    /\ ix.pc = "serving"
    /\ ix.requests[r].pc = "index_chunks"
    /\ ix' = [ix EXCEPT !.is_initialized[ix._bm25_index] = TRUE,
                        !.requests[r].pc = "return_index"]
    /\ UNCHANGED <<hs, cx, dv, cf, pk, fn, chat_vars>>

\* hybrid_search.py 214: `return _bm25_index`, the global as it is now
ReturnBM25Index(r) ==
    /\ ix.pc = "serving"
    /\ ix.requests[r].pc = "return_index"
    /\ ix' = [ix EXCEPT !.requests[r].bm25_index = ix._bm25_index,
                        !.requests[r].pc = "search"]
    /\ UNCHANGED <<hs, cx, dv, cf, pk, fn, chat_vars>>

\* hybrid_search.py 283-328: the request searches with the handles it got
SearchWithHandles(r) ==
    /\ ix.pc = "serving"
    /\ ix.requests[r].pc = "search"
    /\ ix' = [ix EXCEPT !.requests[r].pc = "done"]
    /\ UNCHANGED <<hs, cx, dv, cf, pk, fn, chat_vars>>

\* a new process: both globals are None (hybrid_search.py:170,
\* vector_store.py:296); the collection holds chunks or not
InitIX ==
    /\ \E stored_chunks \in BOOLEAN :
          ix = [pc |-> "serving", stored_chunks |-> stored_chunks,
                _vector_store |-> 0, _bm25_index |-> 0,
                stores_constructed |-> 0, is_initialized |-> <<>>,
                requests |-> [r \in Requests |->
                                 [pc |-> "start", vector_store |-> 0, bm25_index |-> 0,
                                  constructed |-> 0, all_chunks |-> FALSE]]]
    /\ hs = Off
    /\ cx = Off
    /\ dv = Off
    /\ cf = Off
    /\ pk = Off
    /\ fn = Off
    /\ ChatOff

NextIX ==
    \E r \in Requests :
        \/ GetVectorStore(r)
        \/ ConstructVectorStore(r)
        \/ AssignVectorStore(r)
        \/ GetBM25Index(r)
        \/ GetAllChunks(r)
        \/ AssignBM25Index(r)
        \/ IndexChunks(r)
        \/ ReturnBM25Index(r)
        \/ SearchWithHandles(r)

SpecIX == InitIX /\ [][NextIX]_vars

----------------------------------------------------------------------------
(* detect_exact_patterns on queries that hold one statute reference *)

\* the three written forms of a statute reference: "§ ", "Section ",
\* "Wis. Stat. "
ReferenceForms == {<<SECT, " ">>, <<"S", "e", "c", "t", "i", "o", "n", " ">>, <<"W", "i", "s", ".", " ", "S", "t", "a", "t", ".", " ">>}

\* "940.01", "5.1", "939.50(3)", "939.50(3)(a)"
ReferenceNumbers == {<<"9", "4", "0", ".", "0", "1">>, <<"5", ".", "1">>, <<"9", "3", "9", ".", "5", "0", "(", "3", ")">>, <<"9", "3", "9", ".", "5", "0", "(", "3", ")", "(", "a", ")">>}

\* "", "see ", "What does "
QueryLeads == {<<>>, <<"s", "e", "e", " ">>, <<"W", "h", "a", "t", " ", "d", "o", "e", "s", " ">>}

\* "", " say?"
QueryTrails == {<<>>, <<" ", "s", "a", "y", "?">>}

InitDP ==
    /\ \E form \in ReferenceForms, number \in ReferenceNumbers,
          lead \in QueryLeads, trail \in QueryTrails :
          fn = [pc |-> "query", form |-> form, number |-> number,
                query |-> lead \o form \o number \o trail,
                statute_numbers |-> <<>>, case_citations |-> <<>>]
    /\ hs = Off
    /\ cx = Off
    /\ dv = Off
    /\ cf = Off
    /\ pk = Off
    /\ ix = Off
    /\ ChatOff

\* statute_numbers, case_citations = detect_exact_patterns(query)
DPDetect ==
    /\ fn.pc = "query"
    /\ \E detected \in {DetectExactPatterns(fn.query)} :
          fn' = [fn EXCEPT !.pc = "detected",
                           !.statute_numbers = detected.statute_numbers,
                           !.case_citations = detected.case_citations]
    /\ UNCHANGED <<hs, cx, dv, cf, pk, ix, chat_vars>>

SpecDP == InitDP /\ [][DPDetect]_vars

----------------------------------------------------------------------------
(* detect_crossrefs on texts that hold one or two statute references *)

\* no phrase, "See also ", "under "
CrossrefLeads == {<<>>, <<"S", "e", "e", " ", "a", "l", "s", "o", " ">>, <<"u", "n", "d", "e", "r", " ">>}

\* "940.01", "940.02", "940.01(2)"
CrossrefNumbers == {<<"9", "4", "0", ".", "0", "1">>, <<"9", "4", "0", ".", "0", "2">>, <<"9", "4", "0", ".", "0", "1", "(", "2", ")">>}

\* the chunk's own statute number: None, "940.01", "940.01(2)", "941.20"
OwnNumbers == {<<>>, <<"9", "4", "0", ".", "0", "1">>, <<"9", "4", "0", ".", "0", "1", "(", "2", ")">>, <<"9", "4", "1", ".", "2", "0">>}

\* the references written in a text: each a phrase (or none) and a number
ReferenceLists ==
    LET item == [phrase : CrossrefLeads, number : CrossrefNumbers]
    IN  {<<i>> : i \in item} \cup {<<i, j>> : i \in item, j \in item}

\* phrase, "§ " and number of each reference, joined by " and ", then "."
ReferenceText(refs) ==
    Join([k \in 1..Len(refs) |-> refs[k].phrase \o <<SECT, " ">> \o refs[k].number],
         <<" ", "a", "n", "d", " ">>) \o <<".">>

InitDC ==
    /\ \E refs \in ReferenceLists, own \in OwnNumbers :
          fn = [pc |-> "chunk", refs |-> refs,
                chunk |-> [K1 EXCEPT !.text = ReferenceText(refs),
                                     !.statute_number = own],
                statute_refs |-> <<>>]
    /\ hs = Off
    /\ cx = Off
    /\ dv = Off
    /\ cf = Off
    /\ pk = Off
    /\ ix = Off
    /\ ChatOff

\* statute_refs = detect_crossrefs(chunk)
DCDetect ==
    /\ fn.pc = "chunk"
    /\ fn' = [fn EXCEPT !.pc = "detected", !.statute_refs = DetectCrossrefs(fn.chunk)]
    /\ UNCHANGED <<hs, cx, dv, cf, pk, ix, chat_vars>>

SpecDC == InitDC /\ [][DCDetect]_vars

----------------------------------------------------------------------------
(* expand_crossrefs over a collection with chained references *)

\* statute 940.01, text "see § 940.02 and § 940.03"
X1 == [K1 EXCEPT !.text = <<"s", "e", "e", " ", SECT, " ", "9", "4", "0", ".", "0", "2", " ", "a", "n", "d", " ", SECT, " ", "9", "4", "0", ".", "0", "3">>]

\* statute 940.02(1), text "under § 940.05": a reference of its own
X4 == [K4 EXCEPT !.statute_number = <<"9", "4", "0", ".", "0", "2", "(", "1", ")">>,
                 !.text = <<"u", "n", "d", "e", "r", " ", SECT, " ", "9", "4", "0", ".", "0", "5">>]

\* statute 940.05, referenced by X4 only
X5 == [K5 EXCEPT !.chunk_id = <<"a", "_", "c", "h", "u", "n", "k", "_", "3">>,
                 !.statute_number = <<"9", "4", "0", ".", "0", "5">>,
                 !.text = <<"9", "4", "0", ".", "0", "5", " ", "m", "a", "n", "s", "l", "a", "u", "g", "h", "t", "e", "r">>]

\* a training bulletin, text "see § 940.02(1)"
X6 == [K6 EXCEPT !.text = <<"s", "e", "e", " ", SECT, " ", "9", "4", "0", ".", "0", "2", "(", "1", ")">>]

\* the collection in two orders of distance, and one that raises
ChainedStores ==
    {[chunks |-> <<X1, K2, X4, K5, X5, X6>>, raises |-> FALSE,
      nearest |-> <<X1.chunk_id, K2.chunk_id, X4.chunk_id, K5.chunk_id, X5.chunk_id,
                    X6.chunk_id>>],
     [chunks |-> <<X1, K2, X4, K5, X5, X6>>, raises |-> FALSE,
      nearest |-> <<X6.chunk_id, X5.chunk_id, K5.chunk_id, X4.chunk_id, K2.chunk_id,
                    X1.chunk_id>>],
     [chunks |-> <<X1, K2, X4, K5, X5, X6>>, raises |-> TRUE, nearest |-> <<>>]}

\* the longest list of input chunks
MaxExpanded == 2

\* the greatest max_refs
MaxRefs == 2

InitXR ==
    /\ \E ranked \in RankedLists({X1, K2, X4, X6}, MaxExpanded),
          max_refs \in -1..MaxRefs, vs \in ChainedStores :
          fn = [pc |-> "chunks",
                chunks |-> [k \in 1..Len(ranked) |-> ranked[k].chunk],
                max_refs |-> max_refs, vs |-> vs, expanded |-> <<>>]
    /\ hs = Off
    /\ cx = Off
    /\ dv = Off
    /\ cf = Off
    /\ pk = Off
    /\ ix = Off
    /\ ChatOff

\* expanded = expand_crossrefs(chunks, max_refs=max_refs, vector_store=vs)
XRExpand ==
    /\ fn.pc = "chunks"
    /\ fn' = [fn EXCEPT !.pc = "expanded",
                        !.expanded = ExpandCrossrefs(fn.chunks, fn.max_refs, fn.vs)]
    /\ UNCHANGED <<hs, cx, dv, cf, pk, ix, chat_vars>>

SpecXR == InitXR /\ [][XRExpand]_vars

----------------------------------------------------------------------------
(* ingestion/chunking.py: the chunk ids.  A document is given with the
   outcome of its splitting: sections[k] is the list of the subchunks of the
   k-th section (split_text_at_boundaries and merge_small_chunks give at
   least one section, subchunk_text at least one subchunk). *)

\* "data/statutes/940.txt", "data/policies/taser.md"
SourcePaths == {<<"d", "a", "t", "a", "/", "s", "t", "a", "t", "u", "t", "e", "s", "/", "9", "4", "0", ".", "t", "x", "t">>, <<"d", "a", "t", "a", "/", "p", "o", "l", "i", "c", "i", "e", "s", "/", "t", "a", "s", "e", "r", ".", "m", "d">>}

\* hashlib.md5(doc_id.encode()).hexdigest()[:8] of the two paths
DocHash(doc_id) ==
    IF doc_id = <<"d", "a", "t", "a", "/", "s", "t", "a", "t", "u", "t", "e", "s", "/", "9", "4", "0", ".", "t", "x", "t">>
    THEN <<"4", "c", "e", "3", "e", "7", "3", "4">>
    ELSE <<"3", "c", "8", "e", "7", "9", "1", "1">>

\* generate_chunk_id(doc_id, chunk_index)
GenerateChunkId(doc_id, chunk_index) ==
    DocHash(doc_id) \o <<"_", "c", "h", "u", "n", "k", "_">> \o DecimalDigits(chunk_index)

RECURSIVE Flatten(_)
\* the subchunks of all sections in the order of the nested loops
Flatten(sections) ==
    IF sections = <<>> THEN <<>> ELSE Head(sections) \o Flatten(Tail(sections))

\* Chunk(chunk_id=generate_chunk_id(document.source_path, chunk_index), ...)
NewChunk(document, subchunk, chunk_index) ==
    [chunk_id |-> GenerateChunkId(document.source_path, chunk_index),
     doc_id |-> document.source_path,
     doc_type |-> document.document_type,
     text |-> subchunk]

RECURSIVE StatuteLoopCounting(_, _, _, _)
\* the loop with chunk_index counting the skipped subchunks too
StatuteLoopCounting(document, subchunks, chunk_index, chunks) ==
    IF subchunks = <<>> THEN chunks
    ELSE IF Len(Strip(Head(subchunks))) < 10
    THEN StatuteLoopCounting(document, Tail(subchunks), chunk_index + 1, chunks)
    ELSE StatuteLoopCounting(document, Tail(subchunks), chunk_index + 1,
                             Append(chunks, NewChunk(document, Head(subchunks), chunk_index)))

RECURSIVE StatuteLoop(_, _, _, _)
\* chunk_statute, lines 354-386: a subchunk of fewer than 10 characters is
\* skipped and leaves chunk_index as it is
StatuteLoop(document, subchunks, chunk_index, chunks) ==
    IF subchunks = <<>> THEN chunks
    ELSE IF Len(Strip(Head(subchunks))) < 10
    THEN StatuteLoop(document, Tail(subchunks), chunk_index, chunks)
    ELSE StatuteLoop(document, Tail(subchunks), chunk_index + 1,
                     Append(chunks, NewChunk(document, Head(subchunks), chunk_index)))

RECURSIVE SectionLoop(_, _, _, _)
\* chunk_case_law, lines 408-437, and chunk_policy_training, lines 466-491:
\* every subchunk becomes a chunk
SectionLoop(document, subchunks, chunk_index, chunks) ==
    IF subchunks = <<>> THEN chunks
    ELSE SectionLoop(document, Tail(subchunks), chunk_index + 1,
                     Append(chunks, NewChunk(document, Head(subchunks), chunk_index)))

\* chunk_document(document): the fallback enumerates the subchunks of the
\* whole text
ChunkDocument(document) ==
    IF document.document_type = "statute"
    THEN StatuteLoop(document, Flatten(document.sections), 0, <<>>)
    ELSE IF document.document_type \in {"case_law", "policy", "training"}
    THEN SectionLoop(document, Flatten(document.sections), 0, <<>>)
    ELSE LET subchunks == Flatten(document.sections)
         IN  [i \in 1..Len(subchunks) |-> NewChunk(document, subchunks[i], i - 1)]

\* "(1) A", shorter than 10 characters, and "§ 940.01 homicide"
SubchunkTexts == {<<"(", "1", ")", " ", "A">>, <<SECT, " ", "9", "4", "0", ".", "0", "1", " ", "h", "o", "m", "i", "c", "i", "d", "e">>}

\* the most sections of a document and the most subchunks of a section
MaxSections == 2

NonEmptyLists(set, n) == UNION {[1..m -> set] : m \in 1..n}

Documents ==
    [source_path : SourcePaths,
     document_type : {"statute", "case_law", "policy", "training", "unknown"},
     sections : NonEmptyLists(NonEmptyLists(SubchunkTexts, MaxSections), MaxSections)]

InitCK ==
    /\ \E document \in Documents :
          fn = [pc |-> "document", document |-> document, chunks |-> <<>>,
                chunks_again |-> <<>>]
    /\ hs = Off
    /\ cx = Off
    /\ dv = Off
    /\ cf = Off
    /\ pk = Off
    /\ ix = Off
    /\ ChatOff

\* chunks = chunk_document(document)
CKChunk ==
    /\ fn.pc = "document"
    /\ fn' = [fn EXCEPT !.pc = "chunked", !.chunks = ChunkDocument(fn.document)]
    /\ UNCHANGED <<hs, cx, dv, cf, pk, ix, chat_vars>>

\* the same document is chunked again
CKChunkAgain ==
    /\ fn.pc = "chunked"
    /\ fn' = [fn EXCEPT !.pc = "chunked_again",
                        !.chunks_again = ChunkDocument(fn.document)]
    /\ UNCHANGED <<hs, cx, dv, cf, pk, ix, chat_vars>>

NextCK == CKChunk \/ CKChunkAgain

SpecCK == InitCK /\ [][NextCK]_vars

----------------------------------------------------------------------------
(* hybrid_search, steps 2 and 3: the results of the query variants are
   folded into one score per chunk and signal *)

\* the answers of the indices to one variant; in the last one the keyword
\* index scores K1 at 5.0
FoldAnswers ==
    IndexAnswers \cup {[semantic |-> <<Hit(K1, 200)>>, bm25 |-> <<Scored(K1, 5000)>>]}

InitVM ==
    /\ \E answers \in UNION {[1..n -> FoldAnswers] : n \in 1..MaxVariants},
          enhanced_variant_weight \in {ENHANCED_VARIANT_WEIGHT, 1000} :
          fn = [pc |-> "variants",
                enhanced_variant_weight |-> enhanced_variant_weight,
                semantic_by_variant |-> [v \in DOMAIN answers |->
                                            SemanticQuery(answers[v].semantic)],
                bm25_by_variant |-> [v \in DOMAIN answers |-> answers[v].bm25],
                semantic_scores |-> <<>>,
                bm25_results |-> <<>>]
    /\ hs = Off
    /\ cx = Off
    /\ dv = Off
    /\ cf = Off
    /\ pk = Off
    /\ ix = Off
    /\ ChatOff

\* lines 279-307: all_semantic_scores after the loop over the variants
VMSemantic ==
    /\ fn.pc = "variants"
    /\ \E semantic \in {SemanticLoop(fn.semantic_by_variant, fn.enhanced_variant_weight,
                                     1, 1, <<>>)} :
          fn' = [fn EXCEPT !.pc = "semantic",
                           !.semantic_scores = [id \in DOMAIN semantic |->
                                                   semantic[id].score]]
    /\ UNCHANGED <<hs, cx, dv, cf, pk, ix, chat_vars>>

\* lines 309-330: bm25_results = all_bm25_results after the loop
VMKeyword ==
    /\ fn.pc = "semantic"
    /\ fn' = [fn EXCEPT !.pc = "keyword",
                        !.bm25_results = Bm25Loop(fn.bm25_by_variant,
                                                  fn.enhanced_variant_weight, 1, 1, <<>>)]
    /\ UNCHANGED <<hs, cx, dv, cf, pk, ix, chat_vars>>

NextVM == VMSemantic \/ VMKeyword

SpecVM == InitVM /\ [][NextVM]_vars

----------------------------------------------------------------------------
(* the semantic component of hybrid_search: the vector index returns two
   chunks with their cosine distances (vector_store.py:61, "hnsw:space":
   "cosine"), nearest first; the distances are in thousandths, 0 to 2 *)

Distances == {d \in 0..2000 : d % 100 = 0}

InitSC ==
    /\ \E near \in Distances, far \in Distances :
          /\ near <= far
          /\ fn = [pc |-> "index",
                   raw_results |-> <<Hit(K1, near), Hit(K2, far)>>,
                   semantic_results |-> <<>>,
                   similarity |-> <<>>]
    /\ hs = Off
    /\ cx = Off
    /\ dv = Off
    /\ cf = Off
    /\ pk = Off
    /\ ix = Off
    /\ ChatOff

\* hybrid_search.py 286-290: semantic_results = vector_store.semantic_query(...)
SCQuery ==
    /\ fn.pc = "index"
    /\ fn' = [fn EXCEPT !.pc = "queried",
                        !.semantic_results = SemanticQuery(fn.raw_results)]
    /\ UNCHANGED <<hs, cx, dv, cf, pk, ix, chat_vars>>

\* hybrid_search.py 293-296 for the original query (variant_weight 1.0):
\* 1.0 / (1.0 + result.score) raises ZeroDivisionError for a score of -1.0
SCSimilarity ==
    /\ fn.pc = "queried"
    /\ fn' = IF \E k \in 1..Len(fn.semantic_results) :
                    1000 + fn.semantic_results[k].score = 0
             THEN [fn EXCEPT !.pc = "raised"]
             ELSE [fn EXCEPT !.pc = "converted",
                             !.similarity = [k \in 1..Len(fn.semantic_results) |->
                                                Similarity(fn.semantic_results[k].score,
                                                           VariantWeight(1, ENHANCED_VARIANT_WEIGHT))]]
    /\ UNCHANGED <<hs, cx, dv, cf, pk, ix, chat_vars>>

NextSC == SCQuery \/ SCSimilarity

SpecSC == InitSC /\ [][NextSC]_vars

----------------------------------------------------------------------------
(* hybrid_search, step 4: the merge of the two signals for the chunks that
   one query variant returned *)

\* "Section 940.01 State v. Smith"
QBoth == <<"S", "e", "c", "t", "i", "o", "n", " ", "9", "4", "0", ".", "0", "1", " ", "S", "t", "a", "t", "e", " ", "v", ".", " ", "S", "m", "i", "t", "h">>

\* a case-law chunk that carries a statute number too (chunk_case_law
\* extracts one from the text of the chunk)
KB == [K2 EXCEPT !.statute_number = <<"9", "4", "0", ".", "0", "1">>]

\* what the two indices return for the query: the chunk or nothing from the
\* vector index; the chunk, the chunk behind K3, or nothing from the keyword
\* index
MergeAnswers ==
    {[semantic |-> s, bm25 |-> b] :
        s \in {<<>>} \cup {<<Hit(c, d)>> : c \in {K1, K2, KB}, d \in {0, 500, 1000}},
        b \in {<<>>} \cup {<<Scored(c, 2000)>> : c \in {K1, K2, KB}}
                     \cup {<<Scored(K3, 4000), Scored(c, 1000)>> : c \in {K1, K2, KB}}}

InitMG ==
    /\ \E q \in {QStatute, QCase, QTaser, QBoth}, answer \in MergeAnswers :
          fn = [pc |-> "searched", query |-> q,
                semantic_results |-> SemanticQuery(answer.semantic),
                bm25_results |-> answer.bm25,
                semantic_scores |-> <<>>, bm25_scores |-> <<>>, merged |-> <<>>]
    /\ hs = Off
    /\ cx = Off
    /\ dv = Off
    /\ cf = Off
    /\ pk = Off
    /\ ix = Off
    /\ ChatOff

\* lines 332-390: semantic_scores, bm25_scores and merged_scores; merged
\* holds the chunk and the merged score of every chunk id
MGMerge ==
    /\ fn.pc = "searched"
    /\ \E patterns \in {DetectExactPatterns(fn.query)},
          semantic \in {SemanticLoop(<<fn.semantic_results>>, ENHANCED_VARIANT_WEIGHT,
                                     1, 1, <<>>)},
          bm25_results \in {Bm25Loop(<<fn.bm25_results>>, ENHANCED_VARIANT_WEIGHT,
                                     1, 1, <<>>)} :
       \E bm25_scores \in {Bm25Scores(bm25_results)} :
          fn' = [fn EXCEPT
                    !.pc = "merged",
                    !.semantic_scores = [id \in DOMAIN semantic |-> semantic[id].score],
                    !.bm25_scores = bm25_scores,
                    !.merged = [id \in DOMAIN semantic \cup DOMAIN bm25_scores |->
                                   MergedScore(id, semantic, bm25_results, bm25_scores,
                                               patterns, SEMANTIC_WEIGHT, BM25_WEIGHT,
                                               EXACT_MATCH_BONUS)]]
    /\ UNCHANGED <<hs, cx, dv, cf, pk, ix, chat_vars>>

SpecMG == InitMG /\ [][MGMerge]_vars

----------------------------------------------------------------------------
(* backend/retrieval/query_enhancer.py, backend/utils/abbreviations.py,   *)
(* backend/utils/legal_terms.py                                           *)

RECURSIVE ReplaceCount(_, _, _, _)
\* s.replace(old, new, count) for a non-empty old; count < 0 replaces every
\* occurrence
ReplaceCount(s, old, new, count) ==
    IF count = 0 \/ ~Contains(s, old) THEN s
    ELSE LET i == CHOOSE j \in 0..(Len(s) - Len(old)) :
                     /\ SubSeq(s, j + 1, j + Len(old)) = old
                     /\ \A k \in 0..(j - 1) : SubSeq(s, k + 1, k + Len(old)) # old
         IN  SubSeq(s, 1, i) \o new
                 \o ReplaceCount(SubSeq(s, i + Len(old) + 1, Len(s)), old, new, count - 1)

\* the entries of ABBREVIATIONS that the words of the queries below can
\* hit, in the order of the dict
ABBREVIATIONS == <<
    [abbrev |-> <<"o", "w", "i">>,
     expansions |-> <<<<"o", "p", "e", "r", "a", "t", "i", "n", "g", " ", "w", "h", "i", "l", "e", " ", "i", "n", "t", "o", "x", "i", "c", "a", "t", "e", "d">>, <<"d", "u", "i">>, <<"d", "r", "i", "v", "i", "n", "g", " ", "u", "n", "d", "e", "r", " ", "t", "h", "e", " ", "i", "n", "f", "l", "u", "e", "n", "c", "e">>>>],
    [abbrev |-> <<"d", "u", "i">>,
     expansions |-> <<<<"d", "r", "i", "v", "i", "n", "g", " ", "u", "n", "d", "e", "r", " ", "t", "h", "e", " ", "i", "n", "f", "l", "u", "e", "n", "c", "e">>, <<"o", "w", "i">>, <<"o", "p", "e", "r", "a", "t", "i", "n", "g", " ", "w", "h", "i", "l", "e", " ", "i", "n", "t", "o", "x", "i", "c", "a", "t", "e", "d">>>>],
    [abbrev |-> <<"w", "i", "s">>,
     expansions |-> <<<<"w", "i", "s", "c", "o", "n", "s", "i", "n">>>>],
    [abbrev |-> <<"s", "t", "a", "t">>,
     expansions |-> <<<<"s", "t", "a", "t", "u", "t", "e">>, <<"s", "t", "a", "t", "u", "t", "e", "s">>>>],
    [abbrev |-> <<"w", "i", "s", ".", " ", "s", "t", "a", "t">>,
     expansions |-> <<<<"w", "i", "s", "c", "o", "n", "s", "i", "n", " ", "s", "t", "a", "t", "u", "t", "e">>, <<"w", "i", "s", "c", "o", "n", "s", "i", "n", " ", "s", "t", "a", "t", "u", "t", "e", "s">>>>],
    [abbrev |-> <<"t", "e", "r", "r", "y", " ", "s", "t", "o", "p">>,
     expansions |-> <<<<"i", "n", "v", "e", "s", "t", "i", "g", "a", "t", "o", "r", "y", " ", "d", "e", "t", "e", "n", "t", "i", "o", "n">>, <<"s", "t", "o", "p", " ", "a", "n", "d", " ", "f", "r", "i", "s", "k">>, <<"t", "e", "m", "p", "o", "r", "a", "r", "y", " ", "d", "e", "t", "e", "n", "t", "i", "o", "n">>>>],
    [abbrev |-> <<"t", "e", "r", "r", "y", " ", "v", ".", " ", "o", "h", "i", "o">>,
     expansions |-> <<<<"t", "e", "r", "r", "y", " ", "s", "t", "o", "p">>, <<"i", "n", "v", "e", "s", "t", "i", "g", "a", "t", "o", "r", "y", " ", "d", "e", "t", "e", "n", "t", "i", "o", "n">>>>] >>

\* the entries of LEGAL_SYNONYMS that the words of the queries below can hit
LEGAL_SYNONYMS == <<
    [term |-> <<"t", "e", "r", "r", "y", " ", "s", "t", "o", "p">>,
     synonyms |-> <<<<"i", "n", "v", "e", "s", "t", "i", "g", "a", "t", "o", "r", "y", " ", "d", "e", "t", "e", "n", "t", "i", "o", "n">>, <<"s", "t", "o", "p", " ", "a", "n", "d", " ", "f", "r", "i", "s", "k">>, <<"t", "e", "m", "p", "o", "r", "a", "r", "y", " ", "d", "e", "t", "e", "n", "t", "i", "o", "n">>>>],
    [term |-> <<"h", "o", "m", "i", "c", "i", "d", "e">>,
     synonyms |-> <<<<"m", "u", "r", "d", "e", "r">>, <<"m", "a", "n", "s", "l", "a", "u", "g", "h", "t", "e", "r">>, <<"k", "i", "l", "l", "i", "n", "g">>>>] >>

LEGAL_TERMS == {<<"h", "o", "m", "i", "c", "i", "d", "e">>, <<"m", "u", "r", "d", "e", "r">>, <<"m", "a", "n", "s", "l", "a", "u", "g", "h", "t", "e", "r">>, <<"s", "t", "a", "t", "u", "t", "e">>, <<"o", "w", "i">>, <<"d", "u", "i">>, <<"o", "p", "e", "r", "a", "t", "i", "n", "g">>, <<"i", "n", "t", "o", "x", "i", "c", "a", "t", "e", "d">>}

\* the entries of LEGAL_SPELL_CORRECTIONS for homicide
LEGAL_SPELL_CORRECTIONS == <<
    [term |-> <<"h", "o", "m", "o", "c", "i", "d", "e">>, corrected |-> <<"h", "o", "m", "i", "c", "i", "d", "e">>],
    [term |-> <<"h", "o", "m", "i", "c", "i", "d", "e">>, corrected |-> <<"h", "o", "m", "i", "c", "i", "d", "e">>] >>

\* dict.get(key, default) on a list of records with the field key_field
Lookup(table, key_field, key) == SelectSeq(table, LAMBDA e : e[key_field] = key)

\* expand_abbreviation(abbrev)
ExpandAbbreviation(abbrev) ==
    LET found == Lookup(ABBREVIATIONS, "abbrev", Strip(Lower(abbrev)))
    IN  IF found = <<>> THEN <<>> ELSE found[1].expansions

\* get_synonyms(term)
GetSynonyms(term) ==
    LET found == Lookup(LEGAL_SYNONYMS, "term", Strip(Lower(term)))
    IN  IF found = <<>> THEN <<>> ELSE found[1].synonyms

\* is_legal_term(term)
IsLegalTerm(term) == Strip(Lower(term)) \in LEGAL_TERMS

\* correct_spelling(term)
CorrectSpelling(term) ==
    LET found == Lookup(LEGAL_SPELL_CORRECTIONS, "term", Strip(Lower(term)))
    IN  IF found = <<>> THEN term ELSE found[1].corrected

\* (?:§\s*|Section\s+|Sec\.\s+|section\s+|Wis\.?\s*Stat\.?\s*)
\* (\d+\.\d+(?:\([0-9a-zA-Z]+\))*) under re.IGNORECASE; the caller reads
\* group(0), the whole match
statute_pattern ==
    Pattern(Eps,
            Cat(Alt(SECTION_WS,
                Alt(Cat(LitI(<<"s", "e", "c", "t", "i", "o", "n">>), Plus(WS)),
                Alt(CatAll(<<LitI(<<"s", "e", "c">>), Ch({"."}), Plus(WS)>>),
                Alt(Cat(LitI(<<"s", "e", "c", "t", "i", "o", "n">>), Plus(WS)),
                    CatAll(<<LitI(<<"w", "i", "s">>), Opt(Ch({"."})), Star(WS),
                             LitI(<<"s", "t", "a", "t">>), Opt(Ch({"."})), Star(WS)>>))))),
                STATUTE_NUMBER_RE),
            Eps)

\* f"__STATUTE_{idx}__"
Placeholder(idx) == <<"_", "_", "S", "T", "A", "T", "U", "T", "E", "_">> \o DecimalDigits(idx) \o <<"_", "_">>

RECURSIVE ProtectLoop(_, _, _)
\* the loop of protect_statute_numbers from match number counter + 1 on
ProtectLoop(matches, protected_query, placeholder_counter) ==
    IF placeholder_counter >= Len(matches) THEN protected_query
    ELSE ProtectLoop(matches,
                     ReplaceCount(protected_query, matches[placeholder_counter + 1],
                                  Placeholder(placeholder_counter), 1),
                     placeholder_counter + 1)

\* protect_statute_numbers(query); placeholder_map[idx + 1] is the text of
\* placeholder idx
ProtectStatuteNumbers(q) ==
    LET matches == FindAll(statute_pattern, q)
    IN  [protected_query |-> ProtectLoop(matches, q, 0),
         placeholder_map |-> matches]

RECURSIVE RestoreLoop(_, _, _)
RestoreLoop(restored, placeholder_map, idx) ==
    IF idx >= Len(placeholder_map) THEN restored
    ELSE RestoreLoop(ReplaceCount(restored, Placeholder(idx), placeholder_map[idx + 1], -1),
                     placeholder_map, idx + 1)

\* restore_statute_numbers(query, placeholder_map)
RestoreStatuteNumbers(text, placeholder_map) == RestoreLoop(text, placeholder_map, 0)

\* re.findall(r'\b\w+\b', text)
Words(text) == FindAll(Pattern(Eps, Plus(WORDCH), Eps), text)

IsWordChar(c) == c \in WORDCH.chars

RECURSIVE SubWordFrom(_, _, _, _)
\* re.sub(r'\b' + re.escape(word) + r'\b', repl, text, flags=re.IGNORECASE)
\* for a word of \w characters, from position i of text on
SubWordFrom(word, repl, text, i) ==
    IF i > Len(text) THEN <<>>
    ELSE IF /\ i + Len(word) - 1 <= Len(text)
            /\ Lower(SubSeq(text, i, i + Len(word) - 1)) = Lower(word)
            /\ (i = 1 \/ ~IsWordChar(text[i - 1]))
            /\ (i + Len(word) > Len(text) \/ ~IsWordChar(text[i + Len(word)]))
         THEN repl \o SubWordFrom(word, repl, text, i + Len(word))
         ELSE <<text[i]>> \o SubWordFrom(word, repl, text, i + 1)

SubWord(word, repl, text) == SubWordFrom(word, repl, text, 1)

RECURSIVE AddVariants(_, _, _)
\* EnhancedQuery.add_variant for each variant of the list, in order
AddVariants(original, variants, added) ==
    IF added = <<>> THEN variants
    ELSE LET variant == Head(added)
         IN  AddVariants(original,
                         IF /\ variant # <<>>
                            /\ variant \notin Range(variants)
                            /\ variant # original
                         THEN Append(variants, variant)
                         ELSE variants,
                         Tail(added))

RECURSIVE SynonymVariants(_, _)
\* synonym_variants of step 5
SynonymVariants(words, lowered) ==
    IF words = <<>> THEN <<>>
    ELSE LET word == Head(words)
             synonyms == Take(GetSynonyms(word), 2)
         IN  [k \in 1..Len(synonyms) |-> SubWord(word, synonyms[k], lowered)]
                 \o SynonymVariants(Tail(words), lowered)

RECURSIVE SubWords(_, _)
\* re.sub of each (word, replacement) pair in turn
SubWords(pairs, text) ==
    IF pairs = <<>> THEN text
    ELSE SubWords(Tail(pairs), SubWord(Head(pairs)[1], Head(pairs)[2], text))

\* enhance_query(query).variants
EnhanceQuery(q) ==
    IF q = <<>> \/ Strip(q) = <<>> THEN <<>>
    ELSE
    LET protected == ProtectStatuteNumbers(q)
        protected_query == protected.protected_query
        placeholder_map == protected.placeholder_map
        protected_lower == Lower(protected_query)
        Restored(variant) == RestoreStatuteNumbers(variant, placeholder_map)
        \* step 2
        multi_word == SelectSeq(ABBREVIATIONS,
                                LAMBDA e : /\ Contains(e.abbrev, <<" ">>)
                                           /\ Contains(protected_lower, Lower(e.abbrev)))
        step2 == [k \in 1..Len(multi_word) |->
                     Restored(ReplaceCount(protected_lower, Lower(multi_word[k].abbrev),
                                           multi_word[k].expansions[1], -1))]
        \* step 3
        words == Words(protected_lower)
        \* step 4
        abbreviations == SelectSeq(words, LAMBDA w : ExpandAbbreviation(w) # <<>>)
        step4 == [k \in 1..Len(abbreviations) |->
                     Restored(SubWord(abbreviations[k],
                                      ExpandAbbreviation(abbreviations[k])[1],
                                      protected_lower))]
        abbreviation_found == multi_word # <<>> \/ abbreviations # <<>>
        \* step 5
        synonym_variants == SynonymVariants(words, protected_lower)
        limited == Take(synonym_variants, 2)
        step5 == [k \in 1..Len(limited) |-> Restored(limited[k])]
        \* step 6
        misspelled == SelectSeq(words, LAMBDA w : IsLegalTerm(w) /\ CorrectSpelling(w) # w)
        corrected_words == [k \in 1..Len(misspelled) |->
                               <<misspelled[k], CorrectSpelling(misspelled[k])>>]
        step6 == IF corrected_words = <<>> THEN <<>>
                 ELSE <<Restored(SubWords(corrected_words, protected_lower))>>
        \* step 7
        expanded == SubWords([k \in 1..Len(abbreviations) |->
                                 <<abbreviations[k], ExpandAbbreviation(abbreviations[k])[1]>>],
                             protected_lower)
        synonym_term == GetSynonyms(words[1])
        combined == IF synonym_term # <<>>
                    THEN SubWord(words[1], synonym_term[1], expanded)
                    ELSE expanded
        step7 == IF abbreviation_found /\ synonym_variants # <<>>
                 THEN <<Restored(combined)>>
                 ELSE <<>>
    IN  Take(AddVariants(q, <<>>, step2 \o step4 \o step5 \o step6 \o step7), 3)

----------------------------------------------------------------------------
(* enhance_query on queries that hold one or two statute references *)

\* "OWI under ", "homicide ", "owi homicide ", "taser ", ""
EnhanceLeads == {<<"O", "W", "I", " ", "u", "n", "d", "e", "r", " ">>, <<"h", "o", "m", "i", "c", "i", "d", "e", " ">>, <<"o", "w", "i", " ", "h", "o", "m", "i", "c", "i", "d", "e", " ">>, <<"t", "a", "s", "e", "r", " ">>, <<>>}

\* "", " and § 346.63"
EnhanceTrails == {<<>>, <<" ", "a", "n", "d", " ", SECT, " ", "3", "4", "6", ".", "6", "3">>}

InitQE ==
    /\ \E form \in ReferenceForms, number \in ReferenceNumbers,
          lead \in EnhanceLeads, trail \in EnhanceTrails :
          fn = [pc |-> "query", query |-> lead \o form \o number \o trail,
                placeholder_map |-> <<>>, variants |-> <<>>]
    /\ hs = Off
    /\ cx = Off
    /\ dv = Off
    /\ cf = Off
    /\ pk = Off
    /\ ix = Off
    /\ ChatOff

\* enhanced = enhance_query(query)
QEEnhance ==
    /\ fn.pc = "query"
    /\ \E variants \in {EnhanceQuery(fn.query)},
          protected \in {ProtectStatuteNumbers(fn.query)} :
          fn' = [fn EXCEPT !.pc = "enhanced",
                           !.placeholder_map = protected.placeholder_map,
                           !.variants = variants]
    /\ UNCHANGED <<hs, cx, dv, cf, pk, ix, chat_vars>>

SpecQE == InitQE /\ [][QEEnhance]_vars

----------------------------------------------------------------------------
(* resolve_crossref over the collection with chained references *)

\* "940.01", "940.02", "940.02(1)", "940.02(1)(a)", "940.05", "950.99"
RequestedNumbers == {<<"9", "4", "0", ".", "0", "1">>, <<"9", "4", "0", ".", "0", "2">>, <<"9", "4", "0", ".", "0", "2", "(", "1", ")">>, <<"9", "4", "0", ".", "0", "2", "(", "1", ")", "(", "a", ")">>, <<"9", "4", "0", ".", "0", "5">>, <<"9", "5", "0", ".", "9", "9">>}

\* the sets exclude_chunk_ids: at most two of the chunk ids of the collection
ExcludedSets ==
    {ids \in SUBSET {X1.chunk_id, K2.chunk_id, X4.chunk_id, K5.chunk_id, X5.chunk_id, X6.chunk_id} : Cardinality(ids) <= 2}

InitRC ==
    /\ \E statute_number \in RequestedNumbers, vs \in ChainedStores,
          exclude_chunk_ids \in ExcludedSets :
          fn = [pc |-> "reference", statute_number |-> statute_number, vs |-> vs,
                exclude_chunk_ids |-> exclude_chunk_ids, resolved |-> <<>>]
    /\ hs = Off
    /\ cx = Off
    /\ dv = Off
    /\ cf = Off
    /\ pk = Off
    /\ ix = Off
    /\ ChatOff

\* resolved = resolve_crossref(statute_number, vs, exclude_chunk_ids)
RCResolve ==
    /\ fn.pc = "reference"
    /\ fn' = [fn EXCEPT !.pc = "resolved",
                        !.resolved = ResolveCrossref(fn.statute_number, fn.vs,
                                                     fn.exclude_chunk_ids)]
    /\ UNCHANGED <<hs, cx, dv, cf, pk, ix, chat_vars>>

SpecRC == InitRC /\ [][RCResolve]_vars

----------------------------------------------------------------------------
(* apply_relevance_boosts over chunks with and without an is_current flag *)

\* None, "WI", "wi", "IL"
Jurisdictions == {<<>>, <<"W", "I">>, <<"w", "i">>, <<"I", "L">>}

\* no flag, the booleans, "true", "false"
CurrentFlags == {NoAttr, BoolAttr(TRUE), BoolAttr(FALSE), StrAttr(<<"t", "r", "u", "e">>), StrAttr(<<"f", "a", "l", "s", "e">>)}

\* None, this year, six years ago, sixteen years ago, a full date
ChunkDates == {<<>>, DecimalDigits(CurrentYear), DecimalDigits(CurrentYear - 6), DecimalDigits(CurrentYear - 16), <<"2", "0", "2", "0", "-", "0", "1", "-", "1", "5">>}

\* None, "Madison"
ChunkDepartments == {<<>>, <<"M", "a", "d", "i", "s", "o", "n">>}

\* no department filter, "madison", "dane"
DepartmentFilters == {<<>>, <<"m", "a", "d", "i", "s", "o", "n">>, <<"d", "a", "n", "e">>}

\* 0.0, 0.02, 0.5
BaseScores == {0, 20, 500}

InitRB ==
    /\ \E jurisdiction \in Jurisdictions, is_current \in CurrentFlags, date \in ChunkDates,
          doc_type \in {"policy", "statute"}, department \in ChunkDepartments,
          department_filter \in DepartmentFilters, base_score \in BaseScores :
          fn = [pc |-> "scored",
                chunk |-> [K3 EXCEPT !.jurisdiction = jurisdiction,
                                     !.is_current = is_current, !.date = date,
                                     !.doc_type = doc_type, !.department = department],
                base_score |-> base_score,
                filters |-> [department |-> department_filter],
                score |-> 0]
    /\ hs = Off
    /\ cx = Off
    /\ dv = Off
    /\ cf = Off
    /\ pk = Off
    /\ ix = Off
    /\ ChatOff

\* score, reasons = apply_relevance_boosts(chunk, base_score, filters)
RBBoost ==
    /\ fn.pc = "scored"
    /\ fn' = [fn EXCEPT !.pc = "boosted",
                        !.score = ApplyRelevanceBoosts(fn.chunk, fn.base_score, fn.filters)]
    /\ UNCHANGED <<hs, cx, dv, cf, pk, ix, chat_vars>>

SpecRB == InitRB /\ [][RBBoost]_vars

----------------------------------------------------------------------------
(* ingestion/chunking.py: subchunk_text.  The texts it splits are thousands
   of characters long, so a text is given here by its runs: text[k] is a
   character and the number of times it is repeated.  Positions are counted
   from 0 as in Python; a sub-chunk is kept as the slice text[from:to] that
   the code takes and the part text[start:stop] that strip() leaves of it. *)

TARGET_CHUNK_TOKENS == 1200
TARGET_CHUNK_CHARS == TARGET_CHUNK_TOKENS * CHARS_PER_TOKEN_ESTIMATE
CHUNK_OVERLAP_CHARS == 200

Run(c, n) == [c |-> c, n |-> n]

RECURSIVE Offset(_, _)
\* the position of the first character of run k
Offset(text, k) == IF k = 1 THEN 0 ELSE Offset(text, k - 1) + text[k - 1].n

\* len(text)
Length(text) == Offset(text, Len(text) + 1)

\* the run that holds position i, 0 <= i < len(text)
RunOf(text, i) ==
    CHOOSE k \in 1..Len(text) : Offset(text, k) <= i /\ i < Offset(text, k + 1)

Min(a, b) == IF a <= b THEN a ELSE b

RECURSIVE SkipSpace(_, _, _)
\* the first position from i on, below limit, that holds no whitespace, or
\* limit
SkipSpace(text, i, limit) ==
    IF i >= limit THEN limit
    ELSE Only({IF IsSpace(text[k].c)
               THEN Only({SkipSpace(text, next, limit) :
                             next \in {Min(Offset(text, k + 1), limit)}})
               ELSE i :
                  k \in {RunOf(text, i)}})

RECURSIVE SkipSpaceBack(_, _, _)
\* the least j' <= j, above limit, with text[j':j] all whitespace, or limit
SkipSpaceBack(text, limit, j) ==
    IF j <= limit THEN limit
    ELSE Only({IF IsSpace(text[k].c)
               THEN Only({SkipSpaceBack(text, limit, next) :
                             next \in {Max(Offset(text, k), limit)}})
               ELSE j :
                  k \in {RunOf(text, j - 1)}})

\* text[a:b] and what .strip() leaves of it
Slice(text, a, b) ==
    Only({[from |-> a, to |-> b, start |-> start, stop |-> SkipSpaceBack(text, start, b)] :
             start \in {SkipSpace(text, a, b)}})

\* text itself, not stripped
Whole(text) == [from |-> 0, to |-> Length(text), start |-> 0, stop |-> Length(text)]

\* the greatest element of a non-empty set of integers
Greatest(set) == CHOOSE x \in set : \A y \in set : y <= x

\* search_start + match.end() for the last match of [.!?]\s+ in
\* text[search_start:end_pos], or -1 when there is none: a match starts at
\* a punctuation mark that whitespace follows and takes the whitespace
LastSentenceEnd(text, search_start, end_pos) ==
    LET marks == {Offset(text, k + 1) - 1 : k \in
                     {k \in 1..(Len(text) - 1) : /\ text[k].c \in {".", "!", "?"}
                                                 /\ text[k].n > 0
                                                 /\ IsSpace(text[k + 1].c)
                                                 /\ text[k + 1].n > 0}}
        inside == {p \in marks : search_start <= p /\ p + 2 <= end_pos}
    IN  IF inside = {} THEN -1
        ELSE Only({SkipSpace(text, mark + 1, end_pos) : mark \in {Greatest(inside)}})

\* text.rfind(' ', start, end)
RFindSpace(text, start, end) ==
    LET last == {Min(Offset(text, k + 1), end) - 1 : k \in
                    {k \in 1..Len(text) : /\ text[k].c = " "
                                          /\ Max(Offset(text, k), start)
                                                < Min(Offset(text, k + 1), end)}}
    IN  IF last = {} THEN -1 ELSE Greatest(last)

\* `return chunks if chunks else [text]`
OrWhole(chunks, text) == IF chunks # <<>> THEN chunks ELSE <<Whole(text)>>

\* chunks.append(chunk) under `if chunk:`
AppendChunk(chunks, chunk) ==
    IF chunk.stop > chunk.start THEN Append(chunks, chunk) ELSE chunks

\* max(end - overlap, end - (overlap // 2)), lines 272 and 281
NextPosition(end, overlap) == Max(end - overlap, end - (overlap \div 2))

\* the lengths of the part of a text before a separator, and after it
HeadLengths == {3000, 3839, 3840, 4700, 4797, 4798, 4799}
TailLengths == {100, 2000, 6000}

\* ". ", "a ", "?\n", ".a" and the same with three characters for the second
Separators == {<<Run(first, 1), Run(second, n)>> : first \in {".", "a", "?"}, second \in {" ", "\n", "a"}, n \in {1, 3}}

\* texts of one letter, texts of whitespace only, and texts with one
\* separator
Texts ==
    {<<Run("a", n)>> : n \in {0, 100, 4800, 4801, 10000}}
        \cup {<<Run(c, 5000)>> : c \in {" ", "\n"}}
        \cup {<<Run("a", head)>> \o sep \o <<Run("a", tail)>> :
                 head \in HeadLengths, sep \in Separators, tail \in TailLengths}

InitST ==
    /\ \E text \in Texts :
          fn = [pc |-> "call", text |-> text, max_chars |-> TARGET_CHUNK_CHARS,
                overlap |-> CHUNK_OVERLAP_CHARS, current_pos |-> 0, last_pos |-> -1,
                chunks |-> <<>>]
    /\ hs = Off
    /\ cx = Off
    /\ dv = Off
    /\ cf = Off
    /\ pk = Off
    /\ ix = Off
    /\ ChatOff

\* lines 235-240: a text that fits is returned whole
STEnter ==
    /\ fn.pc = "call"
    /\ IF Length(fn.text) <= fn.max_chars
       THEN fn' = [fn EXCEPT !.pc = "returned", !.chunks = <<Whole(fn.text)>>]
       ELSE fn' = [fn EXCEPT !.pc = "loop"]
    /\ UNCHANGED <<hs, cx, dv, cf, pk, ix, chat_vars>>

\* lines 241-296: one pass of the while loop, from the test of its condition
\* on, and the return when the loop is left
STLoop ==
    /\ fn.pc = "loop"
    /\ \E stuck \in {fn.current_pos <= fn.last_pos}, length \in {Length(fn.text)} :
       \E pos \in {IF stuck THEN fn.last_pos + (fn.max_chars \div 2) ELSE fn.current_pos} :
       \E end_pos \in {Min(pos + fn.max_chars, length)} :
       \E search_start \in {Max(pos, end_pos - (fn.max_chars \div 5))} :
       \E actual_end \in {LastSentenceEnd(fn.text, search_start, end_pos)},
          last_space \in {RFindSpace(fn.text, search_start, end_pos)} :
          IF fn.current_pos >= length \/ (stuck /\ pos >= length)
          THEN fn' = [fn EXCEPT !.pc = "returned",
                                !.chunks = OrWhole(fn.chunks, fn.text)]
          ELSE IF end_pos >= length
          THEN fn' = [fn EXCEPT !.pc = "returned", !.last_pos = pos,
                                !.chunks = OrWhole(AppendChunk(fn.chunks,
                                                               Slice(fn.text, pos, length)),
                                                   fn.text)]
          ELSE IF actual_end # -1
          THEN fn' = [fn EXCEPT !.last_pos = pos,
                                !.current_pos = NextPosition(actual_end, fn.overlap),
                                !.chunks = AppendChunk(fn.chunks,
                                                       Slice(fn.text, pos, actual_end))]
          ELSE IF last_space > search_start
          THEN fn' = [fn EXCEPT !.last_pos = pos,
                                !.current_pos = NextPosition(last_space, fn.overlap),
                                !.chunks = AppendChunk(fn.chunks,
                                                       Slice(fn.text, pos, last_space))]
          ELSE fn' = [fn EXCEPT !.last_pos = pos,
                                !.current_pos = end_pos - (fn.overlap \div 2),
                                !.chunks = AppendChunk(fn.chunks,
                                                       Slice(fn.text, pos, end_pos))]
    /\ UNCHANGED <<hs, cx, dv, cf, pk, ix, chat_vars>>

NextST == STEnter \/ STLoop

SpecST == InitST /\ [][NextST]_vars

\* the interpreter runs the call to its end
SpecSTLive == SpecST /\ WF_vars(NextST)

----------------------------------------------------------------------------
(* One process serving /chat and /ingest.  Both handlers are `async def`
   and never await (routes.py 43, 243), so the event loop runs one of them
   to its end before it starts the next: an operation is one step.  A chunk
   is its id and the number of the operation that upserted it. *)

\* the most operations of the process
MaxOperations == 4

\* the chunk ids of the two documents that are ingested
IngestedIds == {K1.chunk_id, K3.chunk_id}

\* `_bm25_index = None`
NoIndex == [id |-> 0, chunks |-> <<>>, is_initialized |-> FALSE]

\* BM25Index() followed by index_chunks(all_chunks), hybrid_search.py 99-130:
\* without the rank_bm25 library, or without chunks, the index stays
\* uninitialized
NewBM25Index(id, all_chunks, available) ==
    IF available /\ all_chunks # <<>>
    THEN [id |-> id, chunks |-> all_chunks, is_initialized |-> TRUE]
    ELSE [id |-> id, chunks |-> <<>>, is_initialized |-> FALSE]

\* get_bm25_index with force_reload=True
ReloadedBM25Index(index, all_chunks, raised, id, available) ==
    IF raised THEN NewBM25Index(id, <<>>, available) ELSE NewBM25Index(id, all_chunks, available)

\* get_bm25_index(vector_store), hybrid_search.py 173-214: the value of
\* _bm25_index after the call.  all_chunks is what get_all_chunks returns,
\* raised whether it raises, id the number of the next BM25Index object.
LazyBM25Index(index, all_chunks, raised, id, available) ==
    IF index.id = 0 \/ ~index.is_initialized
    THEN (IF raised THEN NewBM25Index(id, <<>>, available)
          ELSE NewBM25Index(id, all_chunks, available))
    ELSE index

\* collection.upsert: a chunk replaces the one with its id, or is added
Upsert(collection, chunk) ==
    IF \E k \in 1..Len(collection) : collection[k].chunk_id = chunk.chunk_id
    THEN [k \in 1..Len(collection) |->
             IF collection[k].chunk_id = chunk.chunk_id THEN chunk ELSE collection[k]]
    ELSE Append(collection, chunk)

\* a new process: _bm25_index is None; the collection is empty or holds a
\* chunk of an earlier process; rank_bm25 is installed or not
InitKI ==
    /\ \E collection \in {<<>>, <<[chunk_id |-> K1.chunk_id, rev |-> 0]>>},
          available \in BOOLEAN :
          ix = [pc |-> "process", collection |-> collection, available |-> available,
                _bm25_index |-> NoIndex, built |-> 0, operations |-> 0,
                last |-> "none", bm25_index |-> 0, keyword_results |-> {}]
    /\ hs = Off
    /\ cx = Off
    /\ dv = Off
    /\ cf = Off
    /\ pk = Off
    /\ fn = Off
    /\ ChatOff

\* /chat: hybrid_search gets the index (lines 255-259) and the keyword
\* signal returns chunks of that index (BM25Index.search, lines 132-166)
KISearch ==
    /\ ix.pc = "process"
    /\ ix.operations < MaxOperations
    /\ \E raised \in BOOLEAN :
       \E index \in {LazyBM25Index(ix._bm25_index, ix.collection, raised, ix.built + 1,
                                  ix.available)} :
       \E results \in SUBSET Range(index.chunks) :
          ix' = [ix EXCEPT !._bm25_index = index,
                           !.built = IF index.id = ix._bm25_index.id THEN @ ELSE @ + 1,
                           !.operations = @ + 1,
                           !.last = "search",
                           !.bm25_index = index.id,
                           !.keyword_results = IF index.is_initialized THEN results ELSE {}]
    /\ UNCHANGED <<hs, cx, dv, cf, pk, fn, chat_vars>>

\* /ingest: with reindex the chunks of the file are upserted into the
\* collection (routes.py 160-177); nothing touches _bm25_index
KIIngest ==
    /\ ix.pc = "process"
    /\ ix.operations < MaxOperations
    /\ \E chunk_id \in IngestedIds, reindex \in BOOLEAN :
          ix' = [ix EXCEPT !.collection =
                               IF reindex
                               THEN Upsert(@, [chunk_id |-> chunk_id,
                                               rev |-> ix.operations + 1])
                               ELSE @,
                           !.operations = @ + 1,
                           !.last = IF reindex THEN "reindex" ELSE "ingest"]
    /\ UNCHANGED <<hs, cx, dv, cf, pk, fn, chat_vars>>

NextKI == KISearch \/ KIIngest

SpecKI == InitKI /\ [][NextKI]_vars

----------------------------------------------------------------------------
(* Properties of hybrid_search *)

ChunkIds(results) == [k \in DOMAIN results |-> results[k].chunk.chunk_id]

DistinctIds(results) ==
    \A i, j \in DOMAIN results :
        results[i].chunk.chunk_id = results[j].chunk.chunk_id => i = j

NonIncreasing(results) ==
    \A i, j \in DOMAIN results : i < j => results[i].score >= results[j].score

WellFormedResult(results, top_k) ==
    /\ Len(results) <= top_k
    /\ DistinctIds(results)
    /\ NonIncreasing(results)

\* C9 as stated: every list hybrid_search returns has at most top_k
\* elements, holds each chunk id at most once and is sorted by final score
\* in non-increasing order, whatever top_k is.
C9_EveryTopK ==
    /\ hs.pc \in {"called", "done"} => WellFormedResult(hs.out1, hs.top_k)
    /\ hs.pc = "done" => WellFormedResult(hs.out2, hs.top_k)

\* C9 amended: for top_k >= 0, every list hybrid_search returns has at most
\* top_k elements, holds each chunk id at most once and is sorted by final
\* score in non-increasing order.
C9_NaturalTopK ==
    hs.top_k >= 0 =>
        /\ hs.pc \in {"called", "done"} => WellFormedResult(hs.out1, hs.top_k)
        /\ hs.pc = "done" => WellFormedResult(hs.out2, hs.top_k)

\* a search that merged three chunks, cut the list to top_k = 2 and returned
\* two chunks of different scores
C9_Witness ==
    /\ hs.pc = "called"
    /\ hs.top_k = 2
    /\ \E v \in DOMAIN hs.answers :
          hs.answers[v].bm25 # <<>> /\ hs.answers[v].bm25[1].chunk = K3
    /\ Len(hs.out1) = 2
    /\ hs.out1[1].score > hs.out1[2].score

\* C10 as stated: two invocations of hybrid_search with the same query,
\* filters, parameters and the same answers of both indices return the same
\* chunks in the same order, ties included.
C10_Deterministic ==
    hs.pc = "done" => ChunkIds(hs.out1) = ChunkIds(hs.out2)

----------------------------------------------------------------------------
(* Properties of the chat handler *)

\* the handler returned a ChatResponse
Answered == response.status = 200

\* no source of the packet has a statute number or is a policy
NoStatuteNoPolicy(packet) ==
    \A k \in 1..Len(packet.sources) :
        /\ packet.sources[k].statute_number = <<>>
        /\ packet.sources[k].doc_type # "policy"

\* C1: when the query matches a use-of-force keyword and the packet built
\* for it has no source with a statute number and no policy source, the
\* generator is not invoked and the response is the fixed refusal with no
\* sources and confidence 0.1.
C1_HardGate ==
    (/\ build_calls = 1
     /\ DetectUseOfForce(query)
     /\ NoStatuteNoPolicy(context_packet))
    => /\ generate_calls = 0
       /\ pc = "returned"
       /\ response.response = REFUSAL
       /\ response.sources = <<>>
       /\ response.confidence = 100

\* the taser question answered by a packet that holds case law only
C1_Witness ==
    /\ query = QTaser
    /\ build_calls = 1
    /\ Len(context_packet.sources) = 1
    /\ context_packet.sources[1].doc_type = "case_law"
    /\ response.response = REFUSAL

\* C2 as stated: compute_confidence returns exactly 0.1 whenever
\* num_sources is 0, whatever the other inputs are.
C2_ZeroSources ==
    (/\ cf.pc = "done"
     /\ Get(cf.retrieval_signals, "num_sources", 0) = 0)
    => cf.confidence = 100

\* C3: every value compute_confidence returns, and the confidence of every
\* ChatResponse the chat handler returns, is within [0.0, 1.0].
C3_ConfidenceRange ==
    /\ cf.pc = "done" => cf.confidence \in 0..1000
    /\ Answered => response.confidence \in 0..1000

\* signals and citations whose adjustments add up to 1.33, returned as 1.0
C3_Witness ==
    /\ cf.pc = "done"
    /\ cf.retrieval_signals # <<>>
    /\ cf.retrieval_signals.exact_match
    /\ cf.retrieval_signals.top_score > 900
    /\ cf.retrieval_signals.num_sources >= 5
    /\ cf.retrieval_signals.score_variance < 50
    /\ Len(cf.citations) >= 3
    /\ cf.confidence = 1000

\* C4 as stated: in every ChatResponse the flag LOW_CONFIDENCE is present
\* if and only if the confidence of that response is below 0.5.
C4_LowConfidenceFlag ==
    Answered => (LOW_CONFIDENCE \in Range(response.flags) <=> response.confidence < 500)

\* C5: when hybrid_search returns no results the handler returns the
\* apology with confidence 0.1, flags [LOW_CONFIDENCE] and no sources, and
\* neither build_context nor generate is called.
C5_NoResults ==
    (/\ pc \in {"build", "generate", "format", "returned"}
     /\ search_results = <<>>)
    => /\ pc = "returned"
       /\ response.status = 200
       /\ response.response = APOLOGY
       /\ response.confidence = 100
       /\ response.flags = <<LOW_CONFIDENCE>>
       /\ response.sources = <<>>
       /\ build_calls = 0
       /\ generate_calls = 0

\* the taser question when both indices return nothing
C5_Witness ==
    /\ query = QTaser
    /\ pc = "returned"
    /\ search_results = <<>>
    /\ response.response = APOLOGY

----------------------------------------------------------------------------
(* Properties of build_context and _ensure_diversity *)

\* C6 as stated: build_context returns at least one source whenever
\* ranked_chunks is non-empty, whatever max_chunks, max_tokens and the two
\* flags are.
C6_AnyBudget ==
    (cx.pc = "done" /\ cx.ranked_chunks # <<>>) => Len(cx.packet.sources) >= 1

\* C6 amended: build_context returns at least one source whenever
\* ranked_chunks is non-empty and max_chunks is None or at least 1,
\* whatever max_tokens and the two flags are, even if the first chunk alone
\* exceeds max_tokens.
C6_PositiveMaxChunks ==
    (/\ cx.pc = "done"
     /\ cx.ranked_chunks # <<>>
     /\ (cx.max_chunks = NoLimit \/ cx.max_chunks[1] >= 1))
    => Len(cx.packet.sources) >= 1

\* a first chunk of 4 tokens under a budget of 0 tokens, admitted alone
C6_Witness ==
    /\ cx.pc = "done"
    /\ Len(cx.ranked_chunks) >= 2
    /\ cx.max_tokens = Limit(0)
    /\ cx.max_chunks = Limit(2)
    /\ Len(cx.packet.sources) = 1
    /\ cx.packet.total_tokens = 4

\* the candidate list of the assembly held in c
CandidatesOf(c) ==
    Candidates(c.ranked_chunks, c.expand_crossrefs_flag, c.max_crossrefs,
               c.enforce_diversity, c.vs)

\* the estimated tokens of the first k candidates
PrefixTokens(candidates, k) ==
    Sum([j \in 1..k |-> Len(candidates[j].chunk.text) \div 4])

\* a prefix of k candidates is within the budgets, the first candidate
\* being admitted whatever its size
WithinBudgets(candidates, k, max_chunks, max_tokens) ==
    /\ (max_chunks = NoLimit \/ k <= max_chunks[1])
    /\ \/ max_tokens = NoLimit
       \/ k <= 1
       \/ PrefixTokens(candidates, k) <= max_tokens[1]

\* C7: for max_chunks >= 1, or no max_chunks, the sources of the packet are
\* the longest prefix of the candidate list (the list after diversity
\* reordering and cross-reference expansion) within max_chunks and
\* max_tokens, a limit of None admitting every length, the
\* first candidate being admitted whatever its size; total_tokens is the
\* sum of the token estimates and is within max_tokens unless the packet
\* holds exactly one source.
C7_LongestPrefix ==
    (/\ cx.pc = "done"
     /\ cx.ranked_chunks # <<>>
     /\ (cx.max_chunks = NoLimit \/ cx.max_chunks[1] >= 1))
    => LET candidates == CandidatesOf(cx)
           n == Len(cx.packet.sources)
       IN  /\ n <= Len(candidates)
           /\ \A k \in 1..n :
                 /\ cx.packet.sources[k].chunk_id = candidates[k].chunk.chunk_id
                 /\ cx.packet.sources[k].score = candidates[k].score
           /\ WithinBudgets(candidates, n, cx.max_chunks, cx.max_tokens)
           /\ \A k \in (n + 1)..Len(candidates) :
                 ~WithinBudgets(candidates, k, cx.max_chunks, cx.max_tokens)
           /\ cx.packet.total_tokens = PrefixTokens(candidates, n)
           /\ (cx.max_tokens # NoLimit /\ n # 1)
                 => cx.packet.total_tokens <= cx.max_tokens[1]

\* two ranked chunks and the chunk one of them refers to: the first two
\* candidates fill the token budget exactly and the resolved
\* cross-reference is left out though max_chunks would admit it
C7_Witness ==
    /\ cx.pc = "done"
    /\ cx.expand_crossrefs_flag
    /\ cx.max_chunks = Limit(3)
    /\ cx.max_tokens = Limit(7)
    /\ Len(cx.ranked_chunks) = 2
    /\ Len(CandidatesOf(cx)) = 3
    /\ Len(cx.packet.sources) = 2
    /\ cx.packet.total_tokens = 7

\* the positions of lst that hold a chunk of the type
OfType(lst, doc_type) == {k \in 1..Len(lst) : lst[k].chunk.doc_type = doc_type}

\* position k holds one of the first two chunks of its type, one of the
\* four types of the diversity order
Leading(lst, k) ==
    /\ \E t \in 1..Len(DIVERSITY_TYPES) : lst[k].chunk.doc_type = DIVERSITY_TYPES[t]
    /\ Cardinality({j \in OfType(lst, lst[k].chunk.doc_type) : j < k}) < 2

\* the place of a type in the diversity order
TypeRank(doc_type) == CHOOSE t \in 1..Len(DIVERSITY_TYPES) : DIVERSITY_TYPES[t] = doc_type

\* the position in the list where the chunk of this id is
PositionOf(lst, chunk_id) == CHOOSE k \in 1..Len(lst) : lst[k].chunk.chunk_id = chunk_id

\* C8: for chunks of pairwise distinct ids the reordered list is a
\* permutation of the input; it begins with the first up to 2 chunks of
\* each type in the order statute, case_law, policy, training, and all
\* other chunks follow in their original relative order.
C8_Diversity ==
    dv.pc = "done" =>
        LET input == dv.chunks_with_scores
            output == dv.diverse_chunks
            block == Cardinality({k \in 1..Len(input) : Leading(input, k)})
            At(k) == PositionOf(input, output[k].chunk.chunk_id)
        IN  /\ Len(output) = Len(input)
            /\ {output[k] : k \in 1..Len(output)} = {input[k] : k \in 1..Len(input)}
            /\ \A k \in 1..Len(output) : Leading(input, At(k)) <=> k <= block
            /\ \A i, j \in 1..block :
                  i < j =>
                     \/ TypeRank(output[i].chunk.doc_type) < TypeRank(output[j].chunk.doc_type)
                     \/ /\ output[i].chunk.doc_type = output[j].chunk.doc_type
                        /\ At(i) < At(j)
            /\ \A i, j \in (block + 1)..Len(output) : i < j => At(i) < At(j)

\* a memo, then three statutes: two statutes move to the front, the memo
\* and the third statute follow in their original order
C8_Witness ==
    /\ dv.pc = "done"
    /\ Len(dv.chunks_with_scores) = 4
    /\ dv.chunks_with_scores[1].chunk = K7
    /\ \A k \in 2..4 : dv.chunks_with_scores[k].chunk.doc_type = "statute"
    /\ dv.diverse_chunks[3].chunk = K7
    /\ dv.diverse_chunks[4].chunk = dv.chunks_with_scores[4].chunk

----------------------------------------------------------------------------
(* Properties of the source ids *)

\* the source ids of the sources of a packet
SourceIds(packet) == {packet.sources[k].source_id : k \in 1..Len(packet.sources)}

\* C11 as stated: a source_id assigned to a source of one packet is never
\* assigned again to a source of a packet built for another query in the
\* same process.
C11_ProcessUnique ==
    \A i, j \in 1..Len(pk.builds) :
        i # j => SourceIds(pk.builds[i].packet) \cap SourceIds(pk.builds[j].packet) = {}

\* C12 as stated: extract_citations_from_text applied to the text that
\* get_context_text renders yields exactly the set of the source_ids of
\* the packet: each id in full, and no other id.
C12_RoundTrip ==
    fn.pc = "parsed" => Range(fn.citations) = SourceIds(fn.packet)

----------------------------------------------------------------------------
(* Properties of the formatted response *)

\* C13 as stated: every generated-answer ChatResponse contains at most 3
\* sources, sorted by score in non-increasing order, whatever number of
\* sources of the packet the generator output cites.
C13_AtMostThreeSources ==
    (pc = "returned" /\ generate_calls = 1 /\ Answered)
        => /\ Len(response.sources) <= 3
           /\ \A k \in 1..(Len(response.sources) - 1) :
                 response.sources[k].score >= response.sources[k + 1].score

----------------------------------------------------------------------------
(* Properties of the process-wide handles *)

\* C14 as stated: under any interleaving of concurrent search requests that
\* find the keyword index not yet built, the index is built at most once and
\* the vector-store handle is constructed at most once, and all requests use
\* that single instance.
C14_BuiltOnce ==
    ix.pc = "serving" =>
        /\ Len(ix.is_initialized) <= 1
        /\ ix.stores_constructed <= 1
        /\ \A r, q \in Requests :
              (ix.requests[r].pc = "done" /\ ix.requests[q].pc = "done")
                  => /\ ix.requests[r].bm25_index = ix.requests[q].bm25_index
                     /\ ix.requests[r].vector_store = ix.requests[q].vector_store

----------------------------------------------------------------------------
(* Properties of detect_exact_patterns *)

\* C15 as stated: for every query that literally contains a statute
\* reference in one of the forms "§ N.N(...)", "Section N.N" or
\* "Wis. Stat. N.N", detect_exact_patterns returns a statute list that
\* contains that number with its parenthesised subsections.
C15_StatuteDetected ==
    fn.pc = "detected" => fn.number \in Range(fn.statute_numbers)

----------------------------------------------------------------------------
(* Properties of detect_crossrefs *)

\* the numbers that follow a cross-reference phrase: a reference written
\* with a phrase, or followed by " and §"
ExplicitNumbers(refs) ==
    {refs[k].number : k \in {k \in 1..Len(refs) :
        \/ refs[k].phrase # <<>>
        \/ k < Len(refs) /\ refs[k + 1].phrase = <<>>}}

\* the numbers written after a section sign
WrittenNumbers(refs) == {refs[k].number : k \in 1..Len(refs)}

\* C16 as stated: detect_crossrefs returns exactly the statute numbers that
\* follow an explicit cross-reference phrase, united with every other bare
\* number of the text that is not equal to the chunk's own statute number:
\* a bare number that differs from the own number is kept even when it is a
\* substring of it.
C16_ExactlyTheReferences ==
    fn.pc = "detected" =>
        Range(fn.statute_refs) =
            ExplicitNumbers(fn.refs)
                \cup {n \in WrittenNumbers(fn.refs) : n # fn.chunk.statute_number}

----------------------------------------------------------------------------
(* Properties of expand_crossrefs *)

\* the chunks that follow the input chunks in the result
ResolvedPart == SubSeq(fn.expanded, Len(fn.chunks) + 1, Len(fn.expanded))

\* the ids of a list of chunks
IdsOf(chunks) == {chunks[k].chunk_id : k \in 1..Len(chunks)}

\* the references written in the input chunks
InputRefs == UNION {Range(DetectCrossrefs(fn.chunks[k])) : k \in 1..Len(fn.chunks)}

\* a chunk of the collection, not among the inputs, whose statute number
\* holds a reference of the inputs
SomeReferenceResolves ==
    /\ ~fn.vs.raises
    /\ \E k \in 1..Len(fn.vs.chunks) :
          /\ fn.vs.chunks[k].chunk_id \notin IdsOf(fn.chunks)
          /\ \E ref \in InputRefs : Contains(fn.vs.chunks[k].statute_number, ref)

\* the inputs unchanged as a prefix; at most max_refs resolved chunks, with
\* distinct ids that are no input's id, each referenced by an input chunk;
\* nothing appended when no reference resolves
InputsThenResolved ==
    /\ Len(fn.expanded) >= Len(fn.chunks)
    /\ SubSeq(fn.expanded, 1, Len(fn.chunks)) = fn.chunks
    /\ Len(ResolvedPart) <= fn.max_refs
    /\ \A i, j \in 1..Len(ResolvedPart) :
          ResolvedPart[i].chunk_id = ResolvedPart[j].chunk_id => i = j
    /\ IdsOf(ResolvedPart) \cap IdsOf(fn.chunks) = {}
    /\ \A k \in 1..Len(ResolvedPart) :
          \E ref \in InputRefs : Contains(ResolvedPart[k].statute_number, ref)
    /\ ~SomeReferenceResolves => fn.expanded = fn.chunks

\* C17 as stated, for every max_refs: the input chunks unchanged and in
\* order as a prefix, followed by at most max_refs resolved chunks whose ids
\* are pairwise distinct and differ from every input id; references inside
\* resolved chunks are not expanded; when no reference resolves or the
\* resolution raises, the result is exactly the input list.
C17_AnyMaxRefs ==
    fn.pc = "expanded" => InputsThenResolved

\* C17 for max_refs >= 0
C17_NaturalMaxRefs ==
    (fn.pc = "expanded" /\ fn.max_refs >= 0) => InputsThenResolved

\* X1 alone with max_refs 2: the chunks for 940.02 and 940.03 are appended,
\* the chunk for 940.05, referenced by the resolved X4 only, is not
C17_Witness ==
    /\ fn.pc = "expanded"
    /\ fn.max_refs = 2
    /\ fn.chunks = <<X1>>
    /\ fn.expanded = <<X1, X4, K5>>
    /\ \E k \in 1..Len(fn.vs.chunks) : fn.vs.chunks[k] = X5

----------------------------------------------------------------------------
(* Properties of the chunk ids *)

\* C18: for every document type the chunk at 0-based position i of the
\* list that chunk_document returns has the id
\* generate_chunk_id(document.source_path, i); the ids are pairwise distinct
\* within the document, and chunking the same document again gives the same
\* ids.
C18_IdsByPosition ==
    /\ fn.pc \in {"chunked", "chunked_again"} =>
          /\ \A i \in 1..Len(fn.chunks) :
                fn.chunks[i].chunk_id = GenerateChunkId(fn.document.source_path, i - 1)
          /\ \A i, j \in 1..Len(fn.chunks) :
                fn.chunks[i].chunk_id = fn.chunks[j].chunk_id => i = j
    /\ fn.pc = "chunked_again" =>
          /\ Len(fn.chunks_again) = Len(fn.chunks)
          /\ \A i \in 1..Len(fn.chunks) :
                fn.chunks_again[i].chunk_id = fn.chunks[i].chunk_id

\* a statute whose first subchunk is skipped: the chunk at position 0 is
\* made from the second subchunk
C18_Witness ==
    /\ fn.pc = "chunked_again"
    /\ fn.document.document_type = "statute"
    /\ Len(Strip(Flatten(fn.document.sections)[1])) < 10
    /\ Len(fn.chunks) = 2
    /\ fn.chunks[1].text = Flatten(fn.document.sections)[2]
    /\ fn.chunks[2].chunk_id = GenerateChunkId(fn.document.source_path, 1)

----------------------------------------------------------------------------
(* Properties of the scores folded over the query variants *)

\* the places <<variant, rank>> at which the variants returned a chunk id
Returned(by_variant, chunk_id) ==
    UNION {{<<i, j>> : j \in {j \in 1..Len(by_variant[i]) :
                                by_variant[i][j].chunk.chunk_id = chunk_id}} :
           i \in 1..Len(by_variant)}

\* the chunk ids that some variant returned
ReturnedIds(by_variant) ==
    UNION {{by_variant[i][j].chunk.chunk_id : j \in 1..Len(by_variant[i])} :
           i \in 1..Len(by_variant)}

\* the greatest number of a non-empty set
SetMax(set) == CHOOSE x \in set : \A y \in set : x >= y

\* C19 as stated: for every chunk and for each signal, semantic and
\* keyword, the score that enters normalization and merging is the maximum,
\* over the variants that returned the chunk, of the variant weight times
\* that variant's score: never the first-seen value.
C19_MaxOverVariants ==
    fn.pc = "keyword" =>
        /\ DOMAIN fn.semantic_scores = ReturnedIds(fn.semantic_by_variant)
        /\ \A id \in DOMAIN fn.semantic_scores :
              fn.semantic_scores[id] =
                  SetMax({Similarity(fn.semantic_by_variant[p[1]][p[2]].score,
                                     VariantWeight(p[1], fn.enhanced_variant_weight)) :
                             p \in Returned(fn.semantic_by_variant, id)})
        /\ {fn.bm25_results[k].chunk.chunk_id : k \in 1..Len(fn.bm25_results)}
              = ReturnedIds(fn.bm25_by_variant)
        /\ \A k \in 1..Len(fn.bm25_results) :
              fn.bm25_results[k].score =
                  SetMax({(fn.bm25_by_variant[p[1]][p[2]].score
                              * VariantWeight(p[1], fn.enhanced_variant_weight)) \div 1000 :
                             p \in Returned(fn.bm25_by_variant, fn.bm25_results[k].chunk.chunk_id)})

----------------------------------------------------------------------------
(* Properties of the semantic component *)

\* C20 as stated: the semantic component derived from a vector-index result
\* is a similarity in (0, 1] before the variant weight, and of two chunks
\* returned for the same query variant the one at the smaller distance
\* never gets the smaller component.
C20_SimilarityOfDistance ==
    fn.pc = "converted" =>
        /\ \A k \in 1..Len(fn.similarity) :
              fn.similarity[k] > 0 /\ fn.similarity[k] <= 1000
        /\ \A i, j \in 1..Len(fn.similarity) :
              fn.raw_results[i].distance < fn.raw_results[j].distance
                  => fn.similarity[i] >= fn.similarity[j]

----------------------------------------------------------------------------
(* Properties of the merge step *)

\* semantic * semantic_weight + keyword * bm25_weight for a chunk id, a
\* missing signal counting 0
WeightedSum(id) ==
    (((IF id \in DOMAIN fn.semantic_scores THEN fn.semantic_scores[id] ELSE 0)
         * SEMANTIC_WEIGHT) \div 1000)
    + (((IF id \in DOMAIN fn.bm25_scores THEN fn.bm25_scores[id] ELSE 0)
          * BM25_WEIGHT) \div 1000)

\* C21 as stated: the merged score of a chunk is
\* semantic * semantic_weight + keyword * bm25_weight, plus
\* exact_match_bonus exactly once if its statute number or its case citation
\* matches a detected pattern, also when both of them match.
C21_SingleBonus ==
    fn.pc = "merged" =>
        \A id \in DOMAIN fn.merged :
            fn.merged[id].score =
                WeightedSum(id)
                + (IF \/ StatuteMatches(fn.merged[id].chunk,
                                        DetectExactPatterns(fn.query).statute_numbers)
                      \/ CaseMatches(fn.merged[id].chunk,
                                     DetectExactPatterns(fn.query).case_citations)
                   THEN EXACT_MATCH_BONUS ELSE 0)

----------------------------------------------------------------------------
(* Properties of enhance_query *)

PLACEHOLDER_TEXT == <<"_", "_", "s", "t", "a", "t", "u", "t", "e", "_">>

\* C22: every variant that enhance_query produces contains, verbatim, each
\* statute reference that protect_statute_numbers replaced by a placeholder,
\* and holds no leftover placeholder text.
C22_ReferencesRestored ==
    fn.pc = "enhanced" =>
        \A v \in 1..Len(fn.variants) :
            /\ \A idx \in 1..Len(fn.placeholder_map) :
                  Contains(fn.variants[v], fn.placeholder_map[idx])
            /\ ~Contains(Lower(fn.variants[v]), PLACEHOLDER_TEXT)

----------------------------------------------------------------------------
(* Properties of resolve_crossref *)

\* the chunks of the store that are not excluded and carry a statute number
OpenChunks ==
    {c \in Range(fn.vs.chunks) :
        c.chunk_id \notin fn.exclude_chunk_ids /\ c.statute_number # <<>>}

\* C23: resolve_crossref never returns an excluded chunk; it returns a chunk
\* whenever some chunk that is not excluded has a statute number that
\* contains the requested number or is contained in it; and it returns one
\* whose number equals the requested number if such a chunk is not excluded.
\* Stated for a store that answers its queries.
C23_EitherDirection ==
    (fn.pc = "resolved" /\ ~fn.vs.raises) =>
        /\ \A k \in 1..Len(fn.resolved) : fn.resolved[k].chunk_id \notin fn.exclude_chunk_ids
        /\ (\E c \in OpenChunks : \/ Contains(c.statute_number, fn.statute_number)
                                  \/ Contains(fn.statute_number, c.statute_number))
              => fn.resolved # <<>>
        /\ (\E c \in OpenChunks : c.statute_number = fn.statute_number)
              => (fn.resolved # <<>> /\ fn.resolved[1].statute_number = fn.statute_number)

----------------------------------------------------------------------------
(* Properties of the exact_match signal of chat *)

\* some of the first three results matches a pattern detected in the query
TopThreeMatch ==
    LET patterns == DetectExactPatterns(query)
    IN  \E k \in 1..Len(Take(search_results, 3)) :
            \/ StatuteMatches(search_results[k].chunk, patterns.statute_numbers)
            \/ CaseMatches(search_results[k].chunk, patterns.case_citations)

\* C24: the exact_match signal that chat passes to compute_confidence is
\* true exactly when one of the top three search results has a statute number
\* or a case citation that matches, by containment in either direction, a
\* statute number or case citation that detect_exact_patterns detects in the
\* query.
C24_ExactMatchSignal ==
    retrieval_signals # Off => (retrieval_signals.exact_match <=> TopThreeMatch)

----------------------------------------------------------------------------
(* Properties of apply_relevance_boosts *)

\* J: +0.05 for jurisdiction WI, -0.03 for any other jurisdiction
JurisdictionTerm(chunk) ==
    IF chunk.jurisdiction = <<>> THEN 0
    ELSE IF Upper(chunk.jurisdiction) = <<"W", "I">> THEN 50 ELSE -30

\* the year rule: +0.02 within the last two years, -0.03 beyond ten
YearTerm(chunk) ==
    IF Len(chunk.date) = 4 /\ \A i \in 1..4 : IsDigit(chunk.date[i])
    THEN (IF ParseInt(chunk.date) >= CurrentYear - 2 THEN 20
          ELSE IF ParseInt(chunk.date) < CurrentYear - 10 THEN -30 ELSE 0)
    ELSE 0

\* C: +0.03 for a flag that is true, -0.05 for a flag that is false, the
\* year rule when there is no flag
CurrencyTerm(chunk) ==
    IF chunk.is_current = NoAttr THEN YearTerm(chunk)
    ELSE IF AttrStrLower(chunk.is_current) = <<"t", "r", "u", "e">> THEN 30 ELSE -50

\* D: +0.05 for a policy chunk of the department of the filter
DepartmentTerm(chunk, filters) ==
    IF /\ chunk.doc_type = "policy"
       /\ filters.department # <<>>
       /\ Lower(chunk.department) = Lower(filters.department)
    THEN 50 ELSE 0

\* C25: apply_relevance_boosts returns max(0, base_score + J + C + D), where
\* C is +0.03 for an explicit is-current flag that is true, -0.05 for one
\* that is false, and the year rule only when no flag is present; the score
\* returned is never negative.
C25_BoostSum ==
    fn.pc = "boosted" =>
        /\ fn.score = Max(0, fn.base_score + JurisdictionTerm(fn.chunk)
                                + CurrencyTerm(fn.chunk)
                                + DepartmentTerm(fn.chunk, fn.filters))
        /\ fn.score >= 0

----------------------------------------------------------------------------
(* Properties of subchunk_text *)

\* C26: when subchunk_text splits a text with the default parameters, each
\* sub-chunk after the first is taken from 200 characters
\* (CHUNK_OVERLAP_CHARS) before the position where the one before it ended.
C26_OverlapOfTwoHundred ==
    fn.pc = "returned" =>
        \A k \in 2..Len(fn.chunks) :
            fn.chunks[k].from = fn.chunks[k - 1].to - CHUNK_OVERLAP_CHARS

\* the scan position grows with every pass of the loop that stays in it
PositionGrows == (fn.pc = "loop" /\ fn'.pc = "loop") => fn'.current_pos > fn.current_pos

\* len(chunk) of every sub-chunk returned
WithinMaxChars ==
    fn.pc = "returned" =>
        \A k \in 1..Len(fn.chunks) : fn.chunks[k].stop - fn.chunks[k].start <= fn.max_chars

\* C30: with the default parameters subchunk_text terminates on every text,
\* the scan position strictly increases on every pass of the loop until the
\* end of the text is reached, and every sub-chunk returned has at most
\* max_chars characters.
C30_TerminatesWithinMaxChars ==
    /\ <>(fn.pc = "returned")
    /\ [][PositionGrows]_vars
    /\ []WithinMaxChars

----------------------------------------------------------------------------
(* Properties of the minimum length of a chunk *)

\* C27: no chunk that chunk_document returns has a trimmed text of fewer
\* than 10 characters, whatever the type of the document.
C27_NoTinyChunk ==
    fn.pc = "chunked" =>
        \A k \in 1..Len(fn.chunks) : Len(Strip(fn.chunks[k].text)) >= 10

----------------------------------------------------------------------------
(* Properties of the use-of-force flags and the gate *)

\* the response of the handler is an answer of the generator
AnswerReturned == pc = "returned" /\ response.status = 200 /\ generate_calls > 0

\* C28: the flag computation and the gate agree.  For the query and the
\* packet of every request, generate_flags includes USE_OF_FORCE_INSUFFICIENT
\* if and only if should_allow_use_of_force_response returns False, and
\* never without USE_OF_FORCE_CAUTION; every refusal carries both flags and
\* no generated answer carries USE_OF_FORCE_INSUFFICIENT.
C28_FlagsAgreeWithGate ==
    /\ build_calls > 0 =>
          /\ USE_OF_FORCE_INSUFFICIENT \in Range(flags)
                <=> ~ShouldAllowUseOfForceResponse(query, context_packet)
          /\ USE_OF_FORCE_INSUFFICIENT \in Range(flags)
                => USE_OF_FORCE_CAUTION \in Range(flags)
    /\ (pc = "returned" /\ response.status = 200 /\ response.response = REFUSAL) =>
          {USE_OF_FORCE_CAUTION, USE_OF_FORCE_INSUFFICIENT} \subseteq Range(response.flags)
    /\ AnswerReturned => USE_OF_FORCE_INSUFFICIENT \notin Range(response.flags)

\* a use-of-force question answered by the generator from a packet with a
\* statute and no policy: the gate lets it through and the flags hold the
\* caution alone
C28_Witness ==
    /\ AnswerReturned
    /\ DetectUseOfForce(query)
    /\ ~HasPolicy(context_packet)
    /\ USE_OF_FORCE_CAUTION \in Range(response.flags)
    /\ USE_OF_FORCE_INSUFFICIENT \notin Range(response.flags)

----------------------------------------------------------------------------
(* Properties of the keyword index over the life of a process *)

\* the step is a search
Searches == ix'.operations = ix.operations + 1 /\ ix'.last = "search"

\* an initialized index stays the value of _bm25_index, every search uses
\* it and returns chunks of its list only; without one a search builds
IndexKept ==
    /\ ix._bm25_index.is_initialized =>
          /\ ix'._bm25_index = ix._bm25_index
          /\ ix'.built = ix.built
          /\ Searches => /\ ix'.bm25_index = ix._bm25_index.id
                         /\ ix'.keyword_results \subseteq Range(ix._bm25_index.chunks)
    /\ (~ix._bm25_index.is_initialized /\ Searches) => ix'.built = ix.built + 1

\* C29: once get_bm25_index has produced an initialized index, no later chat
\* or ingest operation rebuilds or changes it: every later search uses the
\* same index over the same chunk list, so chunks upserted afterwards are
\* never returned by the keyword signal; while the index is uninitialized
\* every search attempts a fresh build.
C29_IndexFrozen == [][IndexKept]_vars

\* a search after a reindex that upserted a chunk the initialized index does
\* not hold
C29_Witness ==
    /\ ix.pc = "process"
    /\ ix.last = "search"
    /\ ix._bm25_index.is_initialized
    /\ ix.keyword_results # {}
    /\ \E k \in 1..Len(ix.collection) : ix.collection[k] \notin Range(ix._bm25_index.chunks)

====
